---------------------------- MODULE Spec2Model ----------------------------
(***************************************************************************)
(* A model of the data pipeline of the Business Intelligence Dashboard:    *)
(* type inference (data_processor.clean_and_infer_types), the two filter   *)
(* implementations (utils.apply_filters and the dashboard's apply_filters  *)
(* callback of app.py) and the session state the dashboard keeps.          *)
(*                                                                         *)
(* A DataFrame is a record [index, cols]: index is the sequence of row     *)
(* labels, cols the sequence of columns [name, dtype, cells], each cells   *)
(* sequence aligned with index.  Text (column names, cell text, filter     *)
(* strings) is a sequence of one-character strings, so that lower(),       *)
(* substring tests, parsing and formatting are computed, not assumed.      *)
(***************************************************************************)
EXTENDS Integers, Sequences, FiniteSets, TLC

VARIABLES
    raw,        \* SpecInfer: the table handed to clean_and_infer_types
    typed,      \* SpecInfer: clean_and_infer_types(raw), once computed
    retyped,    \* SpecInfer: clean_and_infer_types(typed), once computed
    stage,      \* SpecInfer: "raw", "typed" or "retyped"
    df_state,   \* SpecFilter: the dataset the session holds (df_state of app.py)
    call,       \* SpecFilter: the function last called: "none", "app" or "utils"
    ctl,        \* SpecFilter: the filter values that call was given
    out,        \* SpecFilter: what that call came to: raised, or the table returned
    stats,      \* SpecReport: what generate_statistics returned, once called
    insights,   \* SpecReport: what generate_all_insights came to, once called
    heap,       \* SpecFrame: the table objects that exist, by identity
    passed,     \* SpecFrame: the identity of the object a stage was given
    ran,        \* SpecFrame: the stage that ran and the object it returned
    filtered_state,  \* SpecSession: the filtered dataset the session holds
    exported    \* SpecSession: the table export_csv last wrote, if any

vars == <<raw, typed, retyped, stage, df_state, call, ctl, out,
          stats, insights, heap, passed, ran, filtered_state, exported>>

inferVars == <<raw, typed, retyped, stage>>

filterVars == <<df_state, call, ctl, out>>

reportVars == <<stats, insights>>

frameVars == <<heap, passed, ran>>

sessionVars == <<filtered_state, exported>>

----------------------------------------------------------------------------
(* Bounds of the model *)

\* Largest number of rows of a table given to type inference.
MaxRows == 3

\* Largest number of rows of a table given to the filters.
MaxFilterRows == 2

\* Largest number of rows of the tables profiled and narrated, the two
\* families of longer tables apart.
MaxReportRows == 2

----------------------------------------------------------------------------
(* Text *)

UpperChars == <<"A","B","C","D","E","F","G","H","I","J","K","L","M",
                "N","O","P","Q","R","S","T","U","V","W","X","Y","Z">>

LowerChars == <<"a","b","c","d","e","f","g","h","i","j","k","l","m",
                "n","o","p","q","r","s","t","u","v","w","x","y","z">>

\* str.lower() of one character.
LowerChar(c) ==
    IF \E i \in 1..Len(UpperChars) : UpperChars[i] = c
    THEN LowerChars[CHOOSE i \in 1..Len(UpperChars) : UpperChars[i] = c]
    ELSE c

\* str.lower()
Lower(s) == [i \in 1..Len(s) |-> LowerChar(s[i])]

\* Python's `sub in s` on strings.
Contains(s, sub) ==
    \E i \in 1..(Len(s) - Len(sub) + 1) : SubSeq(s, i, i + Len(sub) - 1) = sub

DigitChars == <<"0","1","2","3","4","5","6","7","8","9">>

IsDigit(c) == \E i \in 1..Len(DigitChars) : DigitChars[i] = c

DigitVal(c) == (CHOOSE i \in 1..Len(DigitChars) : DigitChars[i] = c) - 1

AllDigits(s) == Len(s) > 0 /\ \A i \in 1..Len(s) : IsDigit(s[i])

RECURSIVE DigitsVal(_)
\* The value of a non-empty string of decimal digits.
DigitsVal(s) ==
    IF Len(s) = 0 THEN 0
    ELSE 10 * DigitsVal(SubSeq(s, 1, Len(s) - 1)) + DigitVal(s[Len(s)])

RECURSIVE NatStr(_)
\* str(n) of a natural number.
NatStr(n) ==
    IF n < 10 THEN <<DigitChars[n + 1]>>
    ELSE NatStr(n \div 10) \o <<DigitChars[(n % 10) + 1]>>

\* str(n) of an integer.
IntStr(n) == IF n < 0 THEN <<"-">> \o NatStr(-n) ELSE NatStr(n)

----------------------------------------------------------------------------
(* Cells, columns and tables *)

\* A cell: Missing (NaN, None, NaT), text, a number or a timestamp.  The
\* record has one shape for every kind; s is the text of a text cell and
\* n the value of a number or the instant of a timestamp.
NA == [k |-> "na", s |-> <<>>, n |-> 0]

Str(s) == [k |-> "str", s |-> s, n |-> 0]

Num(n) == [k |-> "num", s |-> <<>>, n |-> n]

Ts(t) == [k |-> "ts", s |-> <<>>, n |-> t]

\* Series.notna()
NotNa(c) == c.k # "na"

DtObject == "object"

DtInt == "int64"

DtFloat == "float64"

DtDatetime == "datetime64[ns]"

\* pd.api.types.is_datetime64_any_dtype
is_datetime64_any_dtype(col) == col.dtype = DtDatetime

\* select_dtypes(include=["number"])
IsNumberDtype(col) == col.dtype \in {DtInt, DtFloat}

\* The Kind of a column in the words of the specification.
Kind(col) ==
    IF is_datetime64_any_dtype(col) THEN "Datetime"
    ELSE IF IsNumberDtype(col) THEN "Numeric"
    ELSE "Categorical"

\* len(df)
NRows(df) == Len(df.index)

\* pd.DataFrame(): no rows and no columns.
EmptyFrame == [index |-> <<>>, cols |-> <<>>]

\* An absent table (None) and a present one.
None == [some |-> FALSE, df |-> EmptyFrame]

Some(df) == [some |-> TRUE, df |-> df]

\* What a call comes to: it raised, or it returned the table df.
Returned(df) == [raised |-> FALSE, df |-> df]

Raised == [raised |-> TRUE, df |-> EmptyFrame]

\* No column selected (None or "") and no numeric bound (None).
NoCol == <<>>

NoBound == [some |-> FALSE, v |-> 0]

Bound(v) == [some |-> TRUE, v |-> v]

\* The filter controls as the dashboard builds them and clear_filters
\* resets them: no column, no values, no bounds, empty date strings.
NoFilters ==
    [cat_col |-> NoCol, cat_vals |-> {},
     num_col |-> NoCol, n_min |-> NoBound, n_max |-> NoBound,
     date_col |-> NoCol, d_start |-> <<>>, d_end |-> <<>>]

\* The session before any dataset is loaded and any filter applied.
FilterIdle ==
    /\ df_state = None
    /\ call = "none"
    /\ ctl = NoFilters
    /\ out = Returned(EmptyFrame)

\* No statistics computed and no insights generated yet.
NoResult == [done |-> FALSE]

ReportIdle ==
    /\ stats = NoResult
    /\ insights = NoResult

\* No stage has run on any object.
FrameIdle ==
    /\ heap = <<>>
    /\ passed = 0
    /\ ran = [stage |-> "none", returned |-> 0]

\* No filtered dataset is held and nothing was exported.
SessionIdle ==
    /\ filtered_state = None
    /\ exported = None

\* The number of cells of a series that satisfy P.
CountCells(cells, P(_)) == Cardinality({i \in 1..Len(cells) : P(cells[i])})

----------------------------------------------------------------------------
(* Time.  An instant is a number of ticks since 2024-01-01 00:00:00.       *)

\* Ticks of one second: the model's time resolution (pandas keeps ns).
TicksPerSecond == 2

SecondsPerDay == 86400

TicksPerDay == SecondsPerDay * TicksPerSecond

\* The day number of a civil date (days since 1970-01-01).
DaysFromCivil(y, m, d) ==
    LET yy  == IF m <= 2 THEN y - 1 ELSE y
        era == yy \div 400
        yoe == yy - era * 400
        mp  == (m + 9) % 12
        doy == (153 * mp + 2) \div 5 + d - 1
        doe == yoe * 365 + yoe \div 4 - yoe \div 100 + doy
    IN  era * 146097 + doe - 719468

IsLeap(y) == (y % 4 = 0 /\ y % 100 # 0) \/ y % 400 = 0

DaysInMonth(y, m) ==
    IF m = 2 THEN (IF IsLeap(y) THEN 29 ELSE 28)
    ELSE IF m \in {4, 6, 9, 11} THEN 30 ELSE 31

EpochDay == DaysFromCivil(2024, 1, 1)

\* Midnight of a civil date, in ticks.
Midnight(y, m, d) == (DaysFromCivil(y, m, d) - EpochDay) * TicksPerDay

\* The outcome of parsing one string: ok tells whether it parsed.
ParseFail == [ok |-> FALSE, v |-> 0]

ParseOk(v) == [ok |-> TRUE, v |-> v]

\* pd.to_datetime of one string.  An ISO date YYYY-MM-DD parses to its
\* midnight whatever dayfirst is; text that is no date, and a bare number
\* below 1000 ("12"), does not parse.
ParseDate(s) ==
    IF /\ Len(s) = 10
       /\ s[5] = "-" /\ s[8] = "-"
       /\ AllDigits(SubSeq(s, 1, 4))
       /\ AllDigits(SubSeq(s, 6, 7))
       /\ AllDigits(SubSeq(s, 9, 10))
    THEN LET y == DigitsVal(SubSeq(s, 1, 4))
             m == DigitsVal(SubSeq(s, 6, 7))
             d == DigitsVal(SubSeq(s, 9, 10))
         IN  IF m \in 1..12 /\ d >= 1 /\ d <= DaysInMonth(y, m)
             THEN ParseOk(Midnight(y, m, d))
             ELSE ParseFail
    ELSE ParseFail

\* pd.to_numeric of one string: an optional sign and decimal digits.
ParseNumber(s) ==
    IF AllDigits(s) THEN ParseOk(DigitsVal(s))
    ELSE IF Len(s) >= 2 /\ s[1] = "-" /\ AllDigits(Tail(s))
         THEN ParseOk(-DigitsVal(Tail(s)))
         ELSE ParseFail

\* pd.to_datetime(series, errors="coerce") on the cells of a column: a
\* timestamp stays, text is parsed, everything else becomes NaT.
to_datetime_cell(c) ==
    IF c.k = "ts" THEN c
    ELSE IF c.k = "str" /\ ParseDate(c.s).ok THEN Ts(ParseDate(c.s).v)
    ELSE NA

to_datetime(cells) == [i \in 1..Len(cells) |-> to_datetime_cell(cells[i])]

\* pd.to_numeric(series, errors="coerce") on the cells of a column.
to_numeric_cell(c) ==
    IF c.k = "num" THEN c
    ELSE IF c.k = "str" /\ ParseNumber(c.s).ok THEN Num(ParseNumber(c.s).v)
    ELSE NA

to_numeric(cells) == [i \in 1..Len(cells) |-> to_numeric_cell(cells[i])]

\* The comparison of lines 75 and 85 written >= ("at least half").
AtLeastHalfNotNa(cells) ==
    Len(cells) > 0 /\ 2 * CountCells(cells, NotNa) >= Len(cells)

\* converted.notna().mean() > 0.5, in integers: the mean of no cell is
\* NaN, and NaN > 0.5 is False.
MoreThanHalfNotNa(cells) ==
    Len(cells) > 0 /\ 2 * CountCells(cells, NotNa) > Len(cells)

\* The dtype pd.to_numeric gives whole numbers: int64, or float64 as soon
\* as a cell is NaN.
NumericDtype(cells) ==
    IF \E i \in 1..Len(cells) : ~NotNa(cells[i]) THEN DtFloat ELSE DtInt

----------------------------------------------------------------------------
(* data_processor.clean_and_infer_types *)

date_indicators ==
    { <<"d","a","t","e">>, <<"t","i","m","e">>,
      <<"c","r","e","a","t","e","d">>, <<"u","p","d","a","t","e","d">>,
      <<"t","i","m","e","s","t","a","m","p">> }

likely_date(name) == \E ind \in date_indicators : Contains(Lower(name), ind)

\* The guard of line 82 without `and not likely_date`: the numeric parse as
\* the fall-through of the date parse.
NumericAttemptedFallThrough(col) == col.dtype = DtObject

\* The guard of the numeric conversion (line 82).
NumericAttempted(col) == col.dtype = DtObject /\ ~likely_date(col.name)

\* The guard of the datetime conversion (line 72).
DateAttempted(col) == likely_date(col.name) /\ col.dtype = DtObject

\* One turn of the loop over the columns.
InferColumn(col) ==
    IF is_datetime64_any_dtype(col) THEN col
    ELSE IF DateAttempted(col) /\ MoreThanHalfNotNa(to_datetime(col.cells))
    THEN [col EXCEPT !.dtype = DtDatetime, !.cells = to_datetime(col.cells)]
    ELSE IF NumericAttempted(col) /\ MoreThanHalfNotNa(to_numeric(col.cells))
    THEN [col EXCEPT !.dtype = NumericDtype(to_numeric(col.cells)),
                     !.cells = to_numeric(col.cells)]
    ELSE col

\* The datetime conversion of line 76 is the one taken for this column.
ConvertsToDatetime(col) ==
    /\ ~is_datetime64_any_dtype(col)
    /\ DateAttempted(col)
    /\ MoreThanHalfNotNa(to_datetime(col.cells))

RECURSIVE InferLoop(_, _)
\* for col in df.columns, from the i-th column on.
InferLoop(cols, i) ==
    IF i > Len(cols) THEN cols
    ELSE InferLoop([cols EXCEPT ![i] = InferColumn(cols[i])], i + 1)

RECURSIVE InferLoopBreak(_, _)
\* The loop with `break` for the `continue` of line 77: it ends at the
\* first column converted to datetime.
InferLoopBreak(cols, i) ==
    IF i > Len(cols) THEN cols
    ELSE IF ConvertsToDatetime(cols[i])
         THEN [cols EXCEPT ![i] = InferColumn(cols[i])]
         ELSE InferLoopBreak([cols EXCEPT ![i] = InferColumn(cols[i])], i + 1)

clean_and_infer_types_break(df) == [df EXCEPT !.cols = InferLoopBreak(df.cols, 1)]

\* df = df.copy(); the loop; return df.
clean_and_infer_types(df) == [df EXCEPT !.cols = InferLoop(df.cols, 1)]

----------------------------------------------------------------------------
(* The tables type inference is run on *)

\* Column names.
Qty == <<"Q","t","y">>

OrderDate == <<"O","r","d","e","r","D","a","t","e">>

Uptime == <<"u","p","t","i","m","e">>

Price == <<"P","r","i","c","e">>

\* Cell text.
Txt12 == <<"1","2">>

TxtMinus3 == <<"-","3">>

TxtAbc == <<"a","b","c">>

TxtJan5 == <<"2","0","2","4","-","0","1","-","0","5">>

Jan5 == Midnight(2024, 1, 5)

\* One column of a table layout: its name, its dtype and the cells it may hold.
Field(name, dtype, cells) == [name |-> name, dtype |-> dtype, dom |-> cells]

TextCells == {NA, Str(Txt12), Str(TxtMinus3), Str(TxtAbc), Str(TxtJan5)}

\* The column layouts of the raw tables: text columns with and without a
\* date token in the name, and columns the loader already typed.
RawSchemas ==
    { <<Field(Qty, DtObject, TextCells)>>,
      <<Field(OrderDate, DtObject, TextCells)>>,
      <<Field(Uptime, DtObject, {Str(Txt12), Str(TxtAbc)}),
        Field(Price, DtInt, {Num(12), Num(-3)})>>,
      <<Field(Qty, DtFloat, {NA, Num(12)}),
        Field(OrderDate, DtDatetime, {NA, Ts(Jan5)})>>,
      <<Field(OrderDate, DtObject, {Str(TxtJan5), Str(TxtAbc)}),
        Field(Qty, DtObject, {NA, Str(Txt12), Str(TxtAbc)})>> }

\* pd.RangeIndex(n)
RangeIndex(n) == [i \in 1..n |-> i - 1]

\* Every column of a layout field with n rows.
ColumnsFor(field, n) ==
    { [name |-> field.name, dtype |-> field.dtype, cells |-> cs] :
        cs \in [1..n -> field.dom] }

RECURSIVE ColumnSeqs(_, _)
ColumnSeqs(sch, n) ==
    IF Len(sch) = 0 THEN {<<>>}
    ELSE { <<c>> \o rest : c \in ColumnsFor(Head(sch), n),
                          rest \in ColumnSeqs(Tail(sch), n) }

\* The tables of some layouts with the given numbers of rows.
TablesWithRows(schemas, sizes) ==
    UNION { { [index |-> RangeIndex(n), cols |-> cols] : cols \in ColumnSeqs(sch, n) } :
            sch \in schemas, n \in sizes }

TablesOf(schemas) == TablesWithRows(schemas, 0..MaxRows)

RawTables == TablesOf(RawSchemas)

----------------------------------------------------------------------------
(* SpecInfer: type inference applied to a raw table, then to its own result *)

InitInfer ==
    /\ raw \in RawTables
    /\ typed = None
    /\ retyped = None
    /\ stage = "raw"
    /\ FilterIdle
    /\ ReportIdle
    /\ FrameIdle
    /\ SessionIdle

\* load_data's call of clean_and_infer_types on the freshly read table.
Infer ==
    /\ stage = "raw"
    /\ typed' = Some(clean_and_infer_types(raw))
    /\ stage' = "typed"
    /\ UNCHANGED <<raw, retyped>>
    /\ UNCHANGED <<filterVars, reportVars, frameVars>>
    /\ UNCHANGED sessionVars

\* clean_and_infer_types run again on an already typed table.
ReInfer ==
    /\ stage = "typed"
    /\ retyped' = Some(clean_and_infer_types(typed.df))
    /\ stage' = "retyped"
    /\ UNCHANGED <<raw, typed>>
    /\ UNCHANGED <<filterVars, reportVars, frameVars>>
    /\ UNCHANGED sessionVars

NextInfer == Infer \/ ReInfer

SpecInfer == InitInfer /\ [][NextInfer]_vars

----------------------------------------------------------------------------
(* Filtering: what both apply_filters are built from *)

\* `col in df.columns`
HasCol(df, name) == \E j \in 1..Len(df.cols) : df.cols[j].name = name

\* df[col]
ColPos(df, name) == CHOOSE j \in 1..Len(df.cols) : df.cols[j].name = name

Col(df, name) == df.cols[ColPos(df, name)]

RECURSIVE Pick(_, _, _)
\* The entries of seq, from the i-th on, whose mask entry is True.
Pick(seq, mask, i) ==
    IF i > Len(seq) THEN <<>>
    ELSE (IF mask[i] THEN <<seq[i]>> ELSE <<>>) \o Pick(seq, mask, i + 1)

\* df[mask]: the rows whose mask entry is True, with their labels, in order.
BooleanIndex(df, mask) ==
    [index |-> Pick(df.index, mask, 1),
     cols  |-> [j \in 1..Len(df.cols) |->
                  [df.cols[j] EXCEPT !.cells = Pick(df.cols[j].cells, mask, 1)]]]

\* series >= bound and series <= bound against a number.  On a numeric
\* column NaN compares False.  A datetime column refuses the comparison
\* (TypeError); an object column raises TypeError at its first text cell
\* and compares its missing cells False.
NumCompareRaises(col) ==
    \/ is_datetime64_any_dtype(col)
    \/ \E i \in 1..Len(col.cells) : col.cells[i].k \in {"str", "ts"}

\* series > bound where the code has >=.
GtNumber(col, v) == [i \in 1..Len(col.cells) |-> col.cells[i].k = "num" /\ col.cells[i].n > v]

GeNumber(col, v) == [i \in 1..Len(col.cells) |-> col.cells[i].k = "num" /\ col.cells[i].n >= v]

LeNumber(col, v) == [i \in 1..Len(col.cells) |-> col.cells[i].k = "num" /\ col.cells[i].n <= v]

\* series >= t and series <= t against a Timestamp.  NaT compares False;
\* an object column raises TypeError at its first text cell, a numeric
\* column refuses the comparison.
TsCompareRaises(col) ==
    \/ IsNumberDtype(col)
    \/ \E i \in 1..Len(col.cells) : col.cells[i].k \in {"str", "num"}

GeTimestamp(col, t) == [i \in 1..Len(col.cells) |-> col.cells[i].k = "ts" /\ col.cells[i].n >= t]

LeTimestamp(col, t) == [i \in 1..Len(col.cells) |-> col.cells[i].k = "ts" /\ col.cells[i].n <= t]

\* pd.to_datetime(text) of a filter bound: raises on text that is no date.
BoundParses(text) == ParseDate(text).ok

BoundInstant(text) == ParseDate(text).v

\* str(x) of one cell, as astype(str) gives it: text is itself, NaN is
\* "nan", a whole number of an int64 column its digits and of a float64
\* column its digits followed by ".0".
CellStr(c, dtype) ==
    IF c.k = "str" THEN c.s
    ELSE IF c.k = "num"
         THEN (IF dtype = DtFloat THEN IntStr(c.n) \o <<".", "0">> ELSE IntStr(c.n))
         ELSE IF dtype = DtDatetime THEN <<"N","a","T">> ELSE <<"n","a","n">>

\* series.astype(str)
astype_str(col) == [i \in 1..Len(col.cells) |-> CellStr(col.cells[i], col.dtype)]

----------------------------------------------------------------------------
(* The dashboard's apply_filters (app.py), one operator per block *)

\* filtered[cat_col].astype(str).isin(cat_vals)
AppCatMask(col, cat_vals) ==
    [i \in 1..Len(col.cells) |-> astype_str(col)[i] \in cat_vals]

\* Categorical filtering (lines 249-251).
AppCatStep(o, f) ==
    IF o.raised THEN o
    ELSE IF f.cat_col # NoCol /\ f.cat_vals # {}
         THEN Returned(BooleanIndex(o.df, AppCatMask(Col(o.df, f.cat_col), f.cat_vals)))
         ELSE o

\* One bound of the numeric filtering.
AppGe(o, name, b) ==
    IF o.raised \/ ~b.some THEN o
    ELSE IF NumCompareRaises(Col(o.df, name)) THEN Raised
    ELSE Returned(BooleanIndex(o.df, GeNumber(Col(o.df, name), b.v)))

AppLe(o, name, b) ==
    IF o.raised \/ ~b.some THEN o
    ELSE IF NumCompareRaises(Col(o.df, name)) THEN Raised
    ELSE Returned(BooleanIndex(o.df, LeNumber(Col(o.df, name), b.v)))

\* Numeric filtering (lines 253-258).
AppNumStep(o, f) ==
    IF o.raised THEN o
    ELSE IF HasCol(o.df, f.num_col)
         THEN AppLe(AppGe(o, f.num_col, f.n_min), f.num_col, f.n_max)
         ELSE o

\* Lines 262-263: a date column that is not datetime is parsed in place.
AppCoerceDate(df, name) ==
    IF is_datetime64_any_dtype(Col(df, name)) THEN df
    ELSE [df EXCEPT !.cols[ColPos(df, name)] =
             [@ EXCEPT !.dtype = DtDatetime, !.cells = to_datetime(@)]]

\* Lines 265-270: the start bound; whatever raises in the try is dropped.
AppDateStart(df, name, d_start) ==
    IF d_start # <<>> /\ BoundParses(d_start)
    THEN BooleanIndex(df, GeTimestamp(Col(df, name), BoundInstant(d_start)))
    ELSE df

\* pd.to_datetime(d_end) + pd.Timedelta(days=1) - pd.Timedelta(seconds=1)
AppEndInstant(d_end) == BoundInstant(d_end) + TicksPerDay - TicksPerSecond

\* Lines 272-277: the end bound.
AppDateEnd(df, name, d_end) ==
    IF d_end # <<>> /\ BoundParses(d_end)
    THEN BooleanIndex(df, LeTimestamp(Col(df, name), AppEndInstant(d_end)))
    ELSE df

\* Date filtering (lines 260-277).
AppDateStep(o, f) ==
    IF o.raised THEN o
    ELSE IF HasCol(o.df, f.date_col)
         THEN Returned(AppDateEnd(AppDateStart(AppCoerceDate(o.df, f.date_col),
                                               f.date_col, f.d_start),
                                  f.date_col, f.d_end))
         ELSE o

\* One block of the function by its name.
AppStep(o, f, block) ==
    IF block = "cat" THEN AppCatStep(o, f)
    ELSE IF block = "num" THEN AppNumStep(o, f)
    ELSE AppDateStep(o, f)

RECURSIVE AppBlocks(_, _, _)
\* The blocks applied in the given order to filtered = df.copy().
AppBlocks(o, f, order) ==
    IF Len(order) = 0 THEN o
    ELSE AppBlocks(AppStep(o, f, Head(order)), f, Tail(order))

\* The order the code has the blocks in.
AppOrder == <<"cat", "num", "date">>

\* The function with the last block filtering df, not filtered: what the
\* blocks before it dropped comes back.
AppApplyFiltersDateFromDf(df, f) ==
    LET o == AppNumStep(AppCatStep(Returned(df), f), f)
    IN  IF o.raised \/ ~HasCol(df, f.date_col) THEN o
        ELSE AppDateStep(Returned(df), f)

\* apply_filters(df, cat_col, cat_vals, num_col, n_min, n_max, date_col,
\* d_start, d_end) for df not None: the third value returned, filtered.
AppApplyFilters(df, f) == AppBlocks(Returned(df), f, AppOrder)

----------------------------------------------------------------------------
(* utils.apply_filters *)

\* One bound of a numeric filter.
UtilsGe(o, name, b) ==
    IF o.raised \/ ~b.some THEN o
    ELSE IF NumCompareRaises(Col(o.df, name)) THEN Raised
    ELSE Returned(BooleanIndex(o.df, GeNumber(Col(o.df, name), b.v)))

UtilsLe(o, name, b) ==
    IF o.raised \/ ~b.some THEN o
    ELSE IF NumCompareRaises(Col(o.df, name)) THEN Raised
    ELSE Returned(BooleanIndex(o.df, LeNumber(Col(o.df, name), b.v)))

RECURSIVE UtilsNumLoop(_, _)
\* for col, bounds in num_filters.items() (lines 71-77).
UtilsNumLoop(o, num_filters) ==
    IF Len(num_filters) = 0 \/ o.raised THEN o
    ELSE LET e == Head(num_filters)
         IN  UtilsNumLoop(
                 IF HasCol(o.df, e.col)
                 THEN UtilsLe(UtilsGe(o, e.col, e.min), e.col, e.max)
                 ELSE o,
                 Tail(num_filters))

\* series.isin(selected_values): the raw cell against the allowed strings.
IsIn(col, values) ==
    [i \in 1..Len(col.cells) |-> col.cells[i].k = "str" /\ col.cells[i].s \in values]

RECURSIVE UtilsCatLoop(_, _)
\* for col, selected_values in cat_filters.items() (lines 80-82).
UtilsCatLoop(o, cat_filters) ==
    IF Len(cat_filters) = 0 \/ o.raised THEN o
    ELSE LET e == Head(cat_filters)
         IN  UtilsCatLoop(
                 IF HasCol(o.df, e.col) /\ e.values # {}
                 THEN Returned(BooleanIndex(o.df, IsIn(Col(o.df, e.col), e.values)))
                 ELSE o,
                 Tail(cat_filters))

\* Lines 89-94 and 96-101: one bound; whatever raises in the try, the
\* parse or the comparison, is dropped and the table is left as it was.
UtilsDateStart(df, name, start) ==
    IF start # <<>> /\ BoundParses(start) /\ ~TsCompareRaises(Col(df, name))
    THEN BooleanIndex(df, GeTimestamp(Col(df, name), BoundInstant(start)))
    ELSE df

UtilsDateEnd(df, name, end) ==
    IF end # <<>> /\ BoundParses(end) /\ ~TsCompareRaises(Col(df, name))
    THEN BooleanIndex(df, LeTimestamp(Col(df, name), BoundInstant(end)))
    ELSE df

RECURSIVE UtilsDateLoop(_, _)
\* for col, drange in date_filters.items() (lines 85-101).
UtilsDateLoop(o, date_filters) ==
    IF Len(date_filters) = 0 \/ o.raised THEN o
    ELSE LET e == Head(date_filters)
         IN  UtilsDateLoop(
                 IF HasCol(o.df, e.col)
                 THEN Returned(UtilsDateEnd(UtilsDateStart(o.df, e.col, e.start),
                                            e.col, e.end))
                 ELSE o,
                 Tail(date_filters))

\* df.empty: no rows or no columns.
IsEmptyFrame(df) == NRows(df) = 0 \/ Len(df.cols) = 0

\* The three dicts the function is given.
FilterDicts(num_filters, cat_filters, date_filters) ==
    [num |-> num_filters, cat |-> cat_filters, date |-> date_filters]

\* One loop of the function by its name.
UtilsStep(o, d, block) ==
    IF block = "num" THEN UtilsNumLoop(o, d.num)
    ELSE IF block = "cat" THEN UtilsCatLoop(o, d.cat)
    ELSE UtilsDateLoop(o, d.date)

RECURSIVE UtilsBlocks(_, _, _)
\* The loops applied in the given order to filtered_df = df.copy().
UtilsBlocks(o, d, order) ==
    IF Len(order) = 0 THEN o
    ELSE UtilsBlocks(UtilsStep(o, d, Head(order)), d, Tail(order))

\* The order the code has the loops in.
UtilsOrder == <<"num", "cat", "date">>

\* apply_filters(df, num_filters, cat_filters, date_filters) for df not None.
UtilsApplyFilters(df, num_filters, cat_filters, date_filters) ==
    IF IsEmptyFrame(df) THEN Returned(EmptyFrame)
    ELSE UtilsBlocks(Returned(df),
                     FilterDicts(num_filters, cat_filters, date_filters),
                     UtilsOrder)

----------------------------------------------------------------------------
(* SpecFilter: one call of either apply_filters on a loaded dataset *)

Country == <<"C","o","u","n","t","r","y">>

Sales == <<"S","a","l","e","s">>

Created == <<"C","r","e","a","t","e","d">>

TxtUS == <<"U","S">>

TxtFR == <<"F","R">>

TxtSoon == <<"s","o","o","n">>

TxtNan == <<"n","a","n">>

Txt12Dot0 == <<"1","2",".","0">>

Jan6 == Midnight(2024, 1, 6)

\* The rows the loaded files are made of: a country, a sales figure, the
\* instant of the order and the text of a creation date.  The instants are
\* noon of 4 January, the last tick of 5 January (23:59:59.5 with two
\* ticks a second) and midnight of 6 January.
SampleRows ==
    { [country |-> Str(TxtUS), sales |-> Num(12), date |-> Ts(Jan5 - TicksPerDay \div 2),
       created |-> Str(TxtSoon)],
      [country |-> Str(TxtUS), sales |-> Num(5),  date |-> Ts(Jan6 - 1),
       created |-> Str(TxtJan5)],
      [country |-> Str(TxtFR), sales |-> NA,      date |-> Ts(Jan6),
       created |-> Str(TxtSoon)],
      [country |-> NA,         sales |-> Num(20), date |-> NA,
       created |-> NA] }

\* The dtype the reader gives a column: object in a file with no row,
\* float64 (all NaN) where every cell is empty, else the dtype of its cells.
ReadDtype(cells, dtype) ==
    IF Len(cells) = 0 THEN DtObject
    ELSE IF \A i \in 1..Len(cells) : cells[i] = NA THEN DtFloat
    ELSE dtype

\* The table the loader reads from a file with these rows: Country and
\* Created are text, Sales is numeric and OrderDate datetime.
LoadedTable(rows) ==
    LET n == Len(rows)
        Cells(field) == [i \in 1..n |-> rows[i][field]]
    IN  [index |-> RangeIndex(n),
         cols  |-> << [name |-> Country, dtype |-> ReadDtype(Cells("country"), DtObject),
                       cells |-> Cells("country")],
                      [name |-> Sales,
                       dtype |-> ReadDtype(Cells("sales"), NumericDtype(Cells("sales"))),
                       cells |-> Cells("sales")],
                      [name |-> OrderDate, dtype |-> ReadDtype(Cells("date"), DtDatetime),
                       cells |-> Cells("date")],
                      [name |-> Created, dtype |-> ReadDtype(Cells("created"), DtObject),
                       cells |-> Cells("created")] >>]

FilterRawTables ==
    UNION { { LoadedTable(rows) : rows \in [1..n -> SampleRows] } : n \in 0..MaxFilterRows }

\* load_data: the table read, then clean_and_infer_types.
load_data(table) == clean_and_infer_types(table)

\* The filter values a call may be given: no column of a kind, or a
\* column with or without values for it.  The allowed strings are the
\* string representations of cells; the numeric bounds equal a value of
\* the data; the date strings are empty, a date and text that is no date.
AllowSets == { {}, {TxtUS, TxtNan}, {Txt12, Txt12Dot0} }

CatChoices ==
    {[cat_col |-> NoCol, cat_vals |-> {}]}
        \cup [cat_col : {Country, Sales}, cat_vals : AllowSets]

MinBounds == {NoBound, Bound(12)}

MaxBounds == {NoBound, Bound(12)}

NumChoices ==
    {[num_col |-> NoCol, n_min |-> NoBound, n_max |-> NoBound]}
        \cup [num_col : {Sales, Country}, n_min : MinBounds, n_max : MaxBounds]

DateStrings == {<<>>, TxtJan5, TxtSoon}

DateChoices ==
    {[date_col |-> NoCol, d_start |-> <<>>, d_end |-> <<>>]}
        \cup [date_col : {OrderDate, Created}, d_start : DateStrings, d_end : DateStrings]

FilterInputs ==
    { [cat_col |-> c.cat_col, cat_vals |-> c.cat_vals,
       num_col |-> n.num_col, n_min |-> n.n_min, n_max |-> n.n_max,
       date_col |-> d.date_col, d_start |-> d.d_start, d_end |-> d.d_end] :
      c \in CatChoices, n \in NumChoices, d \in DateChoices }

\* The three dicts utils.apply_filters takes, built from the same values:
\* an entry for each column that is selected.
NumFilters(f) ==
    IF f.num_col = NoCol THEN <<>>
    ELSE <<[col |-> f.num_col, min |-> f.n_min, max |-> f.n_max]>>

CatFilters(f) ==
    IF f.cat_col = NoCol THEN <<>>
    ELSE <<[col |-> f.cat_col, values |-> f.cat_vals]>>

DateFilters(f) ==
    IF f.date_col = NoCol THEN <<>>
    ELSE <<[col |-> f.date_col, start |-> f.d_start, end |-> f.d_end]>>

UtilsApply(df, f) == UtilsApplyFilters(df, NumFilters(f), CatFilters(f), DateFilters(f))

\* A file with an order at noon of 5 January and one at its midnight.
EndDayRows ==
    << [country |-> Str(TxtUS), sales |-> Num(12), date |-> Ts(Jan5 + TicksPerDay \div 2),
        created |-> Str(TxtSoon)],
       [country |-> Str(TxtFR), sales |-> Num(5), date |-> Ts(Jan5),
        created |-> Str(TxtJan5)] >>

FilterFiles == FilterRawTables \cup {LoadedTable(EndDayRows)}

InitFilter ==
    /\ df_state \in { Some(load_data(t)) : t \in FilterFiles }
    /\ call = "none"
    /\ ctl = NoFilters
    /\ out = Returned(EmptyFrame)
    /\ raw = EmptyFrame
    /\ typed = None
    /\ retyped = None
    /\ stage = "idle"
    /\ ReportIdle
    /\ FrameIdle
    /\ SessionIdle

\* apply_btn.click: the dashboard's apply_filters on df_state.
ApplyFilters ==
    /\ call = "none"
    /\ df_state.some
    /\ \E f \in FilterInputs :
           /\ ctl' = f
           /\ out' = AppApplyFilters(df_state.df, f)
    /\ call' = "app"
    /\ UNCHANGED df_state
    /\ UNCHANGED <<inferVars, reportVars, frameVars>>
    /\ UNCHANGED sessionVars

\* utils.apply_filters called on the same dataset.
UtilsCall ==
    /\ call = "none"
    /\ df_state.some
    /\ \E f \in FilterInputs :
           /\ ctl' = f
           /\ out' = UtilsApply(df_state.df, f)
    /\ call' = "utils"
    /\ UNCHANGED df_state
    /\ UNCHANGED <<inferVars, reportVars, frameVars>>
    /\ UNCHANGED sessionVars

NextFilter == ApplyFilters \/ UtilsCall

SpecFilter == InitFilter /\ [][NextFilter]_vars

----------------------------------------------------------------------------
(* Claims about type inference, checked under SpecInfer *)

\* A text cell that parses as a number, and one that parses as a date.
ParsesAsNumber(c) == c.k = "str" /\ ParseNumber(c.s).ok

ParsesAsDate(c) == c.k = "str" /\ ParseDate(c.s).ok

\* The name holds one of the five date tokens, whatever its case.
HasDateToken(name) ==
    \/ Contains(Lower(name), <<"d","a","t","e">>)
    \/ Contains(Lower(name), <<"t","i","m","e">>)
    \/ Contains(Lower(name), <<"c","r","e","a","t","e","d">>)
    \/ Contains(Lower(name), <<"u","p","d","a","t","e","d">>)
    \/ Contains(Lower(name), <<"t","i","m","e","s","t","a","m","p">>)

\* The columns of the raw table that are text.
TextColumns == {j \in 1..Len(raw.cols) : raw.cols[j].dtype = DtObject}

\* Twice the number of cells that parse, against the number of cells.
MajorityParses(col, P(_)) == 2 * CountCells(col.cells, P) > Len(col.cells)

\* C1: type inference is idempotent: inferring the types of an already
\* typed table gives the same column kinds and the same cells, Missing
\* ones included, as the first inference did.
C1_InferIdempotent ==
    stage = "retyped" =>
        /\ retyped.df = typed.df
        /\ \A j \in 1..Len(typed.df.cols) :
               /\ Kind(retyped.df.cols[j]) = Kind(typed.df.cols[j])
               /\ retyped.df.cols[j].cells = typed.df.cols[j].cells

\* C1's case: the first inference turned a text column into a Datetime
\* column and another into a Numeric column with a Missing cell, and the
\* inference has been run again.
C1_Witness ==
    /\ stage = "retyped"
    /\ \E j \in TextColumns : Kind(typed.df.cols[j]) = "Datetime"
    /\ \E j \in TextColumns :
           /\ Kind(typed.df.cols[j]) = "Numeric"
           /\ \E i \in 1..NRows(raw) : typed.df.cols[j].cells[i] = NA

C2_WitnessConverted ==
    /\ stage = "typed"
    /\ \E j \in TextColumns :
           /\ ~HasDateToken(raw.cols[j].name)
           /\ NRows(raw) = 3
           /\ CountCells(raw.cols[j].cells, ParsesAsNumber) = 2
           /\ \E i \in 1..3 : raw.cols[j].cells[i] = Str(TxtAbc)
                                 /\ typed.df.cols[j].cells[i] = NA
           /\ Kind(typed.df.cols[j]) = "Numeric"

\* The case of C3: a text column with a date token in its name, at most
\* half of whose cells parse as dates.
DateTokenColumnsNotDates ==
    {j \in TextColumns :
        /\ HasDateToken(raw.cols[j].name)
        /\ ~MajorityParses(raw.cols[j], ParsesAsDate)}

----------------------------------------------------------------------------
(* Claims about the filters, checked under SpecFilter *)

\* The dataset the call was given.
Df == df_state.df

Called == call \in {"app", "utils"}

\* The function that was called, on other filter values.
Call(f) == IF call = "app" THEN AppApplyFilters(Df, f) ELSE UtilsApply(Df, f)

\* The labels of the rows a call returned; a call that raised returned none.
Labels(o) == {o.df.index[i] : i \in 1..Len(o.df.index)}

AllLabels == {Df.index[p] : p \in 1..NRows(Df)}

\* The labels of the rows of the dataset whose cell in column name satisfies P.
RowsWhere(name, P(_)) ==
    {Df.index[p] : p \in {q \in 1..NRows(Df) : P(Col(Df, name).cells[q])}}

\* The criteria a filter specification holds.
ActiveCriteria(f) ==
    {c \in {"cat", "min", "max", "start", "end"} :
        \/ c = "cat"   /\ f.cat_col # NoCol /\ f.cat_vals # {}
        \/ c = "min"   /\ f.num_col # NoCol /\ f.n_min.some
        \/ c = "max"   /\ f.num_col # NoCol /\ f.n_max.some
        \/ c = "start" /\ f.date_col # NoCol /\ f.d_start # <<>>
        \/ c = "end"   /\ f.date_col # NoCol /\ f.d_end # <<>>}

\* The specification with one criterion taken out.
Without(f, c) ==
    IF c = "cat" THEN [f EXCEPT !.cat_vals = {}]
    ELSE IF c = "min" THEN [f EXCEPT !.n_min = NoBound]
    ELSE IF c = "max" THEN [f EXCEPT !.n_max = NoBound]
    ELSE IF c = "start" THEN [f EXCEPT !.d_start = <<>>]
    ELSE [f EXCEPT !.d_end = <<>>]

\* The specification with the criteria of one kind only.
OnlyCat(f) == [NoFilters EXCEPT !.cat_col = f.cat_col, !.cat_vals = f.cat_vals]

OnlyNum(f) == [NoFilters EXCEPT !.num_col = f.num_col, !.n_min = f.n_min, !.n_max = f.n_max]

OnlyDate(f) == [NoFilters EXCEPT !.date_col = f.date_col, !.d_start = f.d_start, !.d_end = f.d_end]

\* A numeric bound is given, and the column it is given for is Numeric.
NumBoundGiven(f) == HasCol(Df, f.num_col) /\ (f.n_min.some \/ f.n_max.some)

NumUsable(f) == NumBoundGiven(f) => Kind(Col(Df, f.num_col)) = "Numeric"

\* A date bound is given; it is usable where the column compares with a
\* timestamp: a Datetime column, or any date column of the dashboard,
\* which parses a text column before it compares (lines 262-263).
DateBoundGiven(f) == HasCol(Df, f.date_col) /\ (f.d_start # <<>> \/ f.d_end # <<>>)

DateUsable(f) ==
    DateBoundGiven(f) => (call = "app" \/ Kind(Col(Df, f.date_col)) = "Datetime")

\* The end date alone: the date column is the Datetime column OrderDate,
\* the end string is a date and nothing else constrains the rows.
EndDateAlone(f) ==
    /\ f.date_col = OrderDate
    /\ Kind(Col(Df, OrderDate)) = "Datetime"
    /\ f.d_start = <<>>
    /\ BoundParses(f.d_end)
    /\ ActiveCriteria(f) = {"end"}

\* C4 as stated: in the dashboard's apply_filters an end date D with no
\* start bound keeps every row whose timestamp lies at any instant of day
\* D, the last second included, and drops every row of day D+1.
C4_AsStated ==
    (call = "app" /\ EndDateAlone(ctl)) =>
        /\ ~out.raised
        /\ LET D == BoundInstant(ctl.d_end)
               OnDayD(c) == c.k = "ts" /\ D <= c.n /\ c.n < D + TicksPerDay
               OnNextDay(c) == c.k = "ts" /\ D + TicksPerDay <= c.n
                                          /\ c.n < D + 2 * TicksPerDay
           IN  /\ RowsWhere(OrderDate, OnDayD) \subseteq Labels(out)
               /\ RowsWhere(OrderDate, OnNextDay) \cap Labels(out) = {}

\* What the code does where C4 fails: the rows kept are those up to and
\* including 23:59:59.0 of day D; the instants after it of the same day
\* are dropped with day D+1.
C4_KeepsThroughLastWholeSecond ==
    (call = "app" /\ EndDateAlone(ctl)) =>
        /\ ~out.raised
        /\ LET D == BoundInstant(ctl.d_end)
               UpToLastSecond(c) == c.k = "ts" /\ c.n <= D + TicksPerDay - TicksPerSecond
           IN  Labels(out) = RowsWhere(OrderDate, UpToLastSecond)

\* C5: adding one more criterion to a filter specification never returns
\* more rows: the rows returned are among the rows returned without that
\* criterion, and are no more in number (a call that raises returns none).
C5_FilterMonotone ==
    Called =>
        \A c \in ActiveCriteria(ctl) :
            /\ Labels(out) \subseteq Labels(Call(Without(ctl, c)))
            /\ NRows(out.df) <= NRows(Call(Without(ctl, c)).df)

\* C5's case: a specification of at least two criteria has been applied,
\* and taking one criterion out of it returns rows it does not return.
C5_Witness ==
    /\ Called
    /\ ~out.raised
    /\ Cardinality(ActiveCriteria(ctl)) >= 2
    /\ Labels(out) # {}
    /\ \E c \in ActiveCriteria(ctl) :
           /\ ~Call(Without(ctl, c)).raised
           /\ Labels(Call(Without(ctl, c))) # Labels(out)

\* The columns selected are distinct.
DistinctColumns(f) ==
    /\ f.cat_col # NoCol => f.cat_col \notin {f.num_col, f.date_col}
    /\ f.num_col # NoCol => f.num_col # f.date_col

\* The six orders the three blocks can be applied in.
Orders ==
    { <<"cat", "num", "date">>, <<"cat", "date", "num">>, <<"num", "cat", "date">>,
      <<"num", "date", "cat">>, <<"date", "cat", "num">>, <<"date", "num", "cat">> }

\* The blocks of the function that was called, applied in another order.
CallInOrder(f, order) ==
    IF call = "app" THEN AppBlocks(Returned(Df), f, order)
    ELSE IF IsEmptyFrame(Df) THEN Returned(EmptyFrame)
    ELSE UtilsBlocks(Returned(Df),
                     FilterDicts(NumFilters(f), CatFilters(f), DateFilters(f)), order)

\* The two parts of C6 for a call: the rows returned are exactly the rows
\* each criterion alone returns, in the order of the dataset, and every
\* order of applying the three blocks gives the same table.
AndCommute ==
        /\ ~out.raised
        /\ LET each == Labels(Call(OnlyCat(ctl))) \cap Labels(Call(OnlyNum(ctl)))
                           \cap Labels(Call(OnlyDate(ctl)))
           IN  out.df.index = Pick(Df.index, [p \in 1..NRows(Df) |-> Df.index[p] \in each], 1)
        /\ \A order \in Orders : CallInOrder(ctl, order) = out

\* C6 as stated: categorical, numeric and date criteria on distinct
\* columns combine by AND and commute: the table returned holds exactly
\* the rows that satisfy every criterion taken alone, in their original
\* order, whatever order the criteria are applied in.
C6_AsStated == (Called /\ DistinctColumns(ctl)) => AndCommute

\* Where C6 holds: the numeric criterion is on a Numeric column and the
\* date criterion on a column that compares with a timestamp.
C6_UsableCriteria ==
    (Called /\ DistinctColumns(ctl) /\ NumUsable(ctl) /\ DateUsable(ctl)) => AndCommute

\* C6's case: a criterion of each kind, on three distinct columns, has
\* been applied; each alone drops a row and together they keep one.
C6_Witness ==
    /\ call = "app"
    /\ DistinctColumns(ctl) /\ NumUsable(ctl)
    /\ {"cat", "end"} \subseteq ActiveCriteria(ctl)
    /\ NumBoundGiven(ctl)
    /\ Labels(out) # {}
    /\ Labels(Call(OnlyCat(ctl))) # AllLabels
    /\ Labels(Call(OnlyNum(ctl))) # AllLabels
    /\ Labels(Call(OnlyDate(ctl))) # AllLabels

\* C7 as stated: a filter with no active criterion (no allow-set value, no
\* numeric bound, no date string; columns may be selected) returns the
\* dataset as it is: same columns, same rows in the same order, same cells.
C7_AsStated ==
    (Called /\ ActiveCriteria(ctl) = {} /\ ctl.cat_vals = {}
            /\ ~ctl.n_min.some /\ ~ctl.n_max.some
            /\ ctl.d_start = <<>> /\ ctl.d_end = <<>>) =>
        /\ ~out.raised
        /\ out.df = Df

\* The numeric criterion of C8 on one cell.
NumCriterion(c, f) ==
    (f.n_min.some \/ f.n_max.some) =>
        /\ c.k = "num"
        /\ f.n_min.some => c.n >= f.n_min.v
        /\ f.n_max.some => c.n <= f.n_max.v

\* C8: with a numeric filter on a Numeric column c, a row is kept if and
\* only if the other criteria keep it and its value in c is not Missing,
\* is >= min when min is given and <= max when max is given; with neither
\* bound given the Missing rows are kept too.  (The other criteria are
\* ones that compare: a date bound is on a column DateUsable admits.)
C8_NumericCriterion ==
    (Called /\ HasCol(Df, ctl.num_col) /\ Kind(Col(Df, ctl.num_col)) = "Numeric"
            /\ DateUsable(ctl)) =>
        /\ ~out.raised
        /\ LET Passes(c) == NumCriterion(c, ctl)
               others == [ctl EXCEPT !.n_min = NoBound, !.n_max = NoBound]
           IN  Labels(out) = Labels(Call(others)) \cap RowsWhere(ctl.num_col, Passes)

\* C8's case: both bounds are given on a Numeric column that holds a
\* Missing value, a value equal to the bounds and a value outside them; the
\* call kept the one and dropped the others.
C8_Witness ==
    /\ Called
    /\ HasCol(Df, ctl.num_col) /\ Kind(Col(Df, ctl.num_col)) = "Numeric"
    /\ ctl.n_min.some /\ ctl.n_max.some
    /\ ActiveCriteria(ctl) = {"min", "max"}
    /\ \E p \in 1..NRows(Df) :
           Col(Df, ctl.num_col).cells[p] = NA /\ Df.index[p] \notin Labels(out)
    /\ \E p \in 1..NRows(Df) :
           Col(Df, ctl.num_col).cells[p] = Num(ctl.n_min.v) /\ Df.index[p] \in Labels(out)

\* C8's other case: a Numeric column is selected with neither bound, and
\* a row whose value is Missing is kept.
C8_WitnessNoBound ==
    /\ Called
    /\ HasCol(Df, ctl.num_col) /\ Kind(Col(Df, ctl.num_col)) = "Numeric"
    /\ ~ctl.n_min.some /\ ~ctl.n_max.some
    /\ \E p \in 1..NRows(Df) :
           Col(Df, ctl.num_col).cells[p] = NA /\ Df.index[p] \in Labels(out)

\* The categorical criterion of C9 over the rows of the dataset: the
\* string representation of the cell is in the allow-set, or the allow-set
\* is empty.
InAllowSet(f) ==
    {Df.index[p] : p \in {q \in 1..NRows(Df) :
        \/ f.cat_vals = {}
        \/ CellStr(Col(Df, f.cat_col).cells[q], Col(Df, f.cat_col).dtype) \in f.cat_vals}}

\* C9 as stated, of both functions: with an allow-set S on column c a row
\* is kept if and only if the other criteria keep it and the string
\* representation of its value in c is in S; an empty S constrains nothing.
C9_AsStated ==
    (Called /\ HasCol(Df, ctl.cat_col) /\ NumUsable(ctl)) =>
        /\ ~out.raised
        /\ Labels(out) = Labels(Call(Without(ctl, "cat"))) \cap InAllowSet(ctl)

\* C9 of the dashboard's apply_filters alone, where it holds.
C9_Dashboard ==
    (call = "app" /\ HasCol(Df, ctl.cat_col) /\ NumUsable(ctl)) =>
        /\ ~out.raised
        /\ Labels(out) = Labels(Call(Without(ctl, "cat"))) \cap InAllowSet(ctl)

\* The bounds of C10: a date string that is no date, a numeric bound on a
\* column that is not Numeric.
UnparseableStart(f) == f.date_col # NoCol /\ f.d_start # <<>> /\ ~BoundParses(f.d_start)

UnparseableEnd(f) == f.date_col # NoCol /\ f.d_end # <<>> /\ ~BoundParses(f.d_end)

\* The specification with its unusable bounds taken out.
WithoutUnusable(f) ==
    [f EXCEPT !.d_start = IF UnparseableStart(f) THEN <<>> ELSE @,
              !.d_end   = IF UnparseableEnd(f) THEN <<>> ELSE @,
              !.n_min   = IF NumUsable(f) THEN @ ELSE NoBound,
              !.n_max   = IF NumUsable(f) THEN @ ELSE NoBound]

\* C10 as stated: with an unparseable date bound, or a numeric bound on a
\* column that is not Numeric, the call returns normally and returns what
\* it returns without that bound.
C10_AsStated ==
    (Called /\ (UnparseableStart(ctl) \/ UnparseableEnd(ctl) \/ ~NumUsable(ctl))) =>
        /\ ~out.raised
        /\ out = Call(WithoutUnusable(ctl))

\* The half of C10 that holds: an unparseable date string never raises and
\* never constrains, when the numeric bounds are usable.
C10_DateStringsOnly ==
    (Called /\ (UnparseableStart(ctl) \/ UnparseableEnd(ctl)) /\ NumUsable(ctl)) =>
        /\ ~out.raised
        /\ out = Call(WithoutUnusable(ctl))

----------------------------------------------------------------------------
(* Profiling (data_processor.py): numeric_summary, categorical_summary,     *)
(* missing_values_report and correlation_matrix.  Numbers are kept exact:   *)
(* a statistic is NaN or a fraction num/den of integers.                    *)

\* df.select_dtypes(include=["number"]), (include=["object", "category"])
\* and the columns with "datetime" in str(dtype), each in column order.
NumberColumns(df) == SelectSeq(df.cols, IsNumberDtype)

IsObjectDtype(col) == col.dtype = DtObject

ObjectColumns(df) == SelectSeq(df.cols, IsObjectDtype)

DatetimeColumns(df) == SelectSeq(df.cols, is_datetime64_any_dtype)

\* The names of a sequence of columns.
Names(cols) == [j \in 1..Len(cols) |-> cols[j].name]

RECURSIVE SeqSum(_)
\* The sum of a sequence of integers.
SeqSum(seq) == IF Len(seq) = 0 THEN 0 ELSE Head(seq) + SeqSum(Tail(seq))

\* The non-missing values of a series, in order (pandas skips NaN).
Values(cells) == LET kept == SelectSeq(cells, NotNa) IN [i \in 1..Len(kept) |-> kept[i].n]

\* Series.isnull().sum()
NullCount(cells) == Len(cells) - Len(SelectSeq(cells, NotNa))

NaN == [nan |-> TRUE, num |-> 0, den |-> 1]

Frac(num, den) == [nan |-> FALSE, num |-> num, den |-> den]

\* n * sum(x^2) - sum(x)^2: n * (n - 1) times the sample variance.
Spread(xs) ==
    Len(xs) * SeqSum([i \in 1..Len(xs) |-> xs[i] * xs[i]]) - SeqSum(xs) * SeqSum(xs)

\* Series.mean(): NaN for no value.
Mean(xs) == IF Len(xs) = 0 THEN NaN ELSE Frac(SeqSum(xs), Len(xs))

\* Series.std() squared (ddof = 1): NaN for fewer than two values.
Variance(xs) == IF Len(xs) < 2 THEN NaN ELSE Frac(Spread(xs), Len(xs) * (Len(xs) - 1))

\* Series.min() and Series.max(): NaN for no value.
Least(xs) ==
    IF Len(xs) = 0 THEN NaN
    ELSE Frac(CHOOSE v \in {xs[i] : i \in 1..Len(xs)} :
                  \A i \in 1..Len(xs) : v <= xs[i], 1)

Greatest(xs) ==
    IF Len(xs) = 0 THEN NaN
    ELSE Frac(CHOOSE v \in {xs[i] : i \in 1..Len(xs)} :
                  \A i \in 1..Len(xs) : v >= xs[i], 1)

\* One row of describe().T: count, mean, std (as its square), min and
\* max of a numeric column; the quartiles are not modelled.
DescribeRow(col) ==
    LET xs == Values(col.cells)
    IN  [name |-> col.name, count |-> Len(xs), mean |-> Mean(xs),
         var |-> Variance(xs), min |-> Least(xs), max |-> Greatest(xs)]

\* A selection that is taken for empty only when it has no column.
EmptyWithoutColumns(df, cols) == Len(cols) = 0

\* DataFrame.empty of a selection: no column or no row.
SelectionEmpty(df, cols) == Len(cols) = 0 \/ NRows(df) = 0

\* numeric_summary(df): pd.DataFrame() for an empty numeric selection,
\* else describe().T, one row for each numeric column.
numeric_summary(df) ==
    LET numeric_df == NumberColumns(df)
    IN  IF SelectionEmpty(df, numeric_df) THEN <<>>
        ELSE [j \in 1..Len(numeric_df) |-> DescribeRow(numeric_df[j])]

\* A report of the numeric columns alone.
MissingOfNumberColumns(df) ==
    [j \in 1..Len(NumberColumns(df)) |->
        [col |-> NumberColumns(df)[j].name, count |-> NullCount(NumberColumns(df)[j].cells)]]

\* missing_values_report(df): {col: int(count)} over df.isnull().sum(),
\* in column order.
missing_values_report(df) ==
    [j \in 1..Len(df.cols) |->
        [col |-> df.cols[j].name, count |-> NullCount(df.cols[j].cells)]]

\* The rows where both columns hold a value (pairwise complete).
BothPresent(a, b) == {p \in 1..Len(a.cells) : NotNa(a.cells[p]) /\ NotNa(b.cells[p])}

RECURSIVE SumAt(_, _, _)
\* The sum of xs[p] * ys[p] over the rows p of a set.
SumAt(rows, xs, ys) ==
    IF rows = {} THEN 0
    ELSE LET p == CHOOSE q \in rows : TRUE
         IN  xs[p].n * ys[p].n + SumAt(rows \ {p}, xs, ys)

Ones(cells) == [p \in 1..Len(cells) |-> Num(1)]

Sign(v) == IF v > 0 THEN 1 ELSE IF v < 0 THEN -1 ELSE 0

\* Pearson's r of two columns over their pairwise complete rows, as
\* nancorr computes it: covxy / sqrt(ssqdx * ssqdy), NaN when that divisor
\* is 0 (no row, one row, or a column constant on these rows).  r is kept
\* as its three moments, each scaled by the number of rows:
\* r = cov / sqrt(vx * vy).
Pearson(a, b) ==
    LET rows == BothPresent(a, b)
        n    == Cardinality(rows)
        sx   == SumAt(rows, a.cells, Ones(a.cells))
        sy   == SumAt(rows, b.cells, Ones(b.cells))
        vx   == n * SumAt(rows, a.cells, a.cells) - sx * sx
        vy   == n * SumAt(rows, b.cells, b.cells) - sy * sy
        cxy  == n * SumAt(rows, a.cells, b.cells) - sx * sy
    IN  IF n = 0 \/ vx = 0 \/ vy = 0
        THEN [nan |-> TRUE, cov |-> 0, vx |-> 0, vy |-> 0]
        ELSE [nan |-> FALSE, cov |-> cxy, vx |-> vx, vy |-> vy]

RECURSIVE GCD(_, _)
GCD(m, n) == IF n = 0 THEN m ELSE GCD(n, m % n)

\* a * b = c * d for positive integers, without forming the products.
SameProduct(a, b, c, d) ==
    LET g == GCD(a, c)
        h == GCD(b, d)
    IN  a \div g = d \div h /\ b \div h = c \div g

\* An entry of the matrix that is exactly 1.0: cov > 0 and cov^2 = vx * vy.
IsOne(r) == ~r.nan /\ r.cov > 0 /\ SameProduct(r.cov, r.cov, r.vx, r.vy)

\* correlation_matrix(df): pd.DataFrame() for an empty numeric selection,
\* else numeric_df.corr(): the names of the numeric columns and r for
\* every pair of them.  nancorr computes r once for each pair xi >= yi
\* and stores it at [xi, yi] and at [yi, xi].
correlation_matrix(df) ==
    LET numeric_df == NumberColumns(df)
    IN  IF SelectionEmpty(df, numeric_df) THEN [names |-> <<>>, r |-> <<>>]
        ELSE [names |-> Names(numeric_df),
              r |-> [i \in 1..Len(numeric_df) |->
                       [j \in 1..Len(numeric_df) |->
                           IF i >= j THEN Pearson(numeric_df[i], numeric_df[j])
                           ELSE Pearson(numeric_df[j], numeric_df[i])]]]

\* The characters text is written in (space, hyphen, full stop, digits,
\* letters and underscore), in code point order.
TextChars ==
    <<
       " ", "-", ".", "0", "1", "2", "3", "4", "5", "6", "7", "8", "9",
       "A", "B", "C", "D", "E", "F", "G", "H", "I", "J", "K", "L", "M",
       "N", "O", "P", "Q", "R", "S", "T", "U", "V", "W", "X", "Y", "Z",
       "_", "a", "b", "c", "d", "e", "f", "g", "h", "i", "j", "k", "l",
       "m", "n", "o", "p", "q", "r", "s", "t", "u", "v", "w", "x", "y",
       "z"
    >>

\* The rank of a character by its code point.
CharRank(ch) == CHOOSE i \in 1..Len(TextChars) : TextChars[i] = ch

RECURSIVE TextLess(_, _)
\* a < b for two Python strings: by code point, a proper prefix first.
TextLess(a, b) ==
    IF Len(b) = 0 THEN FALSE
    ELSE IF Len(a) = 0 THEN TRUE
    ELSE IF Head(a) = Head(b) THEN TextLess(Tail(a), Tail(b))
    ELSE CharRank(Head(a)) < CharRank(Head(b))

\* Series.nunique(): the number of distinct non-missing values.
NUnique(cells) == Cardinality({cells[i] : i \in {p \in 1..Len(cells) : NotNa(cells[p])}})

\* How often a value occurs in a series.
Occurrences(cells, c) == Cardinality({i \in 1..Len(cells) : cells[i] = c})

\* Series.mode(): the non-missing values of the highest frequency,
\* returned sorted; the set of them here.
Modes(cells) ==
    LET present == {cells[i] : i \in {p \in 1..Len(cells) : NotNa(cells[p])}}
    IN  {c \in present : \A d \in present : Occurrences(cells, c) >= Occurrences(cells, d)}

\* mode_vals.iloc[0] if len(mode_vals) > 0 else None: the least of the
\* sorted modes of a text column; NA stands for None.
MostFrequent(cells) ==
    IF Modes(cells) = {} THEN NA
    ELSE CHOOSE c \in Modes(cells) : \A d \in Modes(cells) : ~TextLess(d.s, c.s)

\* categorical_summary(df): for each object column its "Unique Values"
\* and its "Most Frequent" value.
categorical_summary(df) ==
    LET cat_df == ObjectColumns(df)
    IN  [j \in 1..Len(cat_df) |->
            [col |-> cat_df[j].name,
             unique |-> NUnique(cat_df[j].cells),
             most_frequent |-> MostFrequent(cat_df[j].cells)]]

\* generate_statistics(df) of the dashboard for df not None: the four
\* reports (the numeric summary with its index reset to a Metric column).
generate_statistics(df) ==
    [done |-> TRUE,
     num |-> numeric_summary(df),
     cat |-> categorical_summary(df),
     missing |-> missing_values_report(df),
     corr |-> correlation_matrix(df)]

----------------------------------------------------------------------------
(* Insights (insights.py): formatting *)

\* A natural number below 1000 in three digits.
Pad3(n) ==
    <<DigitChars[(n \div 100) + 1], DigitChars[((n \div 10) % 10) + 1],
      DigitChars[(n % 10) + 1]>>

\* A natural number below 100 in two digits.
Pad2(n) == <<DigitChars[(n \div 10) + 1], DigitChars[(n % 10) + 1]>>

\* A natural number below 10000 in four digits.
Pad4(n) == Pad2(n \div 100) \o Pad2(n % 100)

RECURSIVE NatThousands(_)
NatThousands(n) ==
    IF n < 1000 THEN NatStr(n)
    ELSE NatThousands(n \div 1000) \o <<",">> \o Pad3(n % 1000)

\* f"{n:,}" of an integer, and f"{x:,.0f}" of a whole number.
Thousands(n) == IF n < 0 THEN <<"-">> \o NatThousands(-n) ELSE NatThousands(n)

\* The civil date [y, m, d] of a day number (days since 1970-01-01).
CivilFromDays(z) ==
    LET zz  == z + 719468
        era == zz \div 146097
        doe == zz - era * 146097
        yoe == (doe - doe \div 1460 + doe \div 36524 - doe \div 146096) \div 365
        doy == doe - (365 * yoe + yoe \div 4 - yoe \div 100)
        mp  == (5 * doy + 2) \div 153
        d   == doy - (153 * mp + 2) \div 5 + 1
        m   == IF mp < 10 THEN mp + 3 ELSE mp - 9
        y   == yoe + era * 400 + (IF m <= 2 THEN 1 ELSE 0)
    IN  [y |-> y, m |-> m, d |-> d]

\* The day an instant lies on, as a count of days since 2024-01-01.
DayOf(t) == t \div TicksPerDay

\* Timestamp.strftime("%Y-%m-%d") and str(datetime.date) of a day.
DayStr(day) ==
    LET c == CivilFromDays(day + EpochDay)
    IN  Pad4(c.y) \o <<"-">> \o Pad2(c.m) \o <<"-">> \o Pad2(c.d)

\* round(100 * part / whole, 1) in tenths of a percent: the nearest
\* tenth, the even one of two equally near.
PctTenths(part, whole) ==
    LET q == (1000 * part) \div whole
        r == (1000 * part) % whole
    IN  IF 2 * r > whole \/ (2 * r = whole /\ q % 2 = 1) THEN q + 1 ELSE q

\* One line of the narrative: what it reports (kind), the column or the
\* label it names (col), the formatted amount or date (txt, txt2) and its
\* counts (n, m, k).
Line(kind, col, txt, txt2, n, m, k) ==
    [kind |-> kind, col |-> col, txt |-> txt, txt2 |-> txt2, n |-> n, m |-> m, k |-> k]

\* One entry of insights_sections: the block it comes from and its lines.
Section(part, lines) == [part |-> part, lines |-> lines]

----------------------------------------------------------------------------
(* Insights (insights.py): the value column, the grouping column and the   *)
(* performer ranking                                                       *)

\* The keywords of lines 235-239, 250-254 and 102.
value_keywords ==
    << <<"q","u","a","n","t","i","t","y">>,
       <<"a","m","o","u","n","t">>,
       <<"s","a","l","e","s">>,
       <<"r","e","v","e","n","u","e">>,
       <<"p","r","i","c","e">>,
       <<"t","o","t","a","l">>,
       <<"w","e","e","k","l","y">>,
       <<"m","o","n","t","h","l","y">>,
       <<"c","o","s","t">>,
       <<"p","r","o","f","i","t">>,
       <<"v","a","l","u","e">> >>

group_keywords ==
    << <<"c","o","u","n","t","r","y">>,
       <<"p","r","o","d","u","c","t">>,
       <<"c","a","t","e","g","o","r","y">>,
       <<"c","u","s","t","o","m","e","r">>,
       <<"d","e","s","c","r","i","p","t","i","o","n">>,
       <<"n","a","m","e">>,
       <<"s","t","o","r","e">>,
       <<"r","e","g","i","o","n">>,
       <<"c","i","t","y">>,
       <<"s","t","a","t","e">>,
       <<"d","e","p","a","r","t","m","e","n","t">> >>

negative_keywords ==
    << <<"q","u","a","n","t","i","t","y">>,
       <<"a","m","o","u","n","t">>,
       <<"p","r","i","c","e">>,
       <<"s","a","l","e","s">> >>

\* any(keyword in col.lower() for keyword in keywords)
HasKeyword(name, keywords) ==
    \E i \in 1..Len(keywords) : Contains(Lower(name), keywords[i])

\* The first name of a list that has a keyword, None (NoCol) without one.
FirstWithKeyword(names, keywords) ==
    IF \E i \in 1..Len(names) : HasKeyword(names[i], keywords)
    THEN names[CHOOSE i \in 1..Len(names) :
                   /\ HasKeyword(names[i], keywords)
                   /\ \A j \in 1..(i - 1) : ~HasKeyword(names[j], keywords)]
    ELSE NoCol

\* df[col].nunique() < 100 of line 227.
NUniqueLimit == 100

IsLowCardinality(col) == NUnique(col.cells) < NUniqueLimit

\* cat_cols after lines 223-228: the object columns, then the numeric
\* columns of fewer than 100 distinct values appended behind them.
GroupCandidates(df) ==
    Names(ObjectColumns(df)) \o Names(SelectSeq(NumberColumns(df), IsLowCardinality))

\* The same candidates in the column order of the table.
GroupCandidatesInColumnOrder(df) ==
    LET IsCandidate(col) == IsObjectDtype(col) \/ (IsNumberDtype(col) /\ IsLowCardinality(col))
    IN  Names(SelectSeq(df.cols, IsCandidate))

\* Lines 231-244: the first numeric column with a value keyword, else the
\* first numeric column, else None.
ValueCol(df) ==
    LET numeric_only == Names(NumberColumns(df))
        found == FirstWithKeyword(numeric_only, value_keywords)
    IN  IF found # NoCol THEN found
        ELSE IF Len(numeric_only) > 0 THEN numeric_only[1] ELSE NoCol

\* Lines 247-259 on a list of candidates: the first with a priority
\* keyword, else the first, else None.
ChooseGroup(cat_cols) ==
    LET found == FirstWithKeyword(cat_cols, group_keywords)
    IN  IF found # NoCol THEN found
        ELSE IF Len(cat_cols) > 0 THEN cat_cols[1] ELSE NoCol

GroupCol(df) == ChooseGroup(GroupCandidates(df))

\* Line 264: value_col and group_col and value_col != group_col.
RanksPerformers(df) ==
    ValueCol(df) # NoCol /\ GroupCol(df) # NoCol /\ ValueCol(df) # GroupCol(df)

\* The keys of df.groupby(group_col): the distinct non-missing cells.
GroupKeys(df, group_col) ==
    LET cells == Col(df, group_col).cells
    IN  {cells[p] : p \in {q \in 1..Len(cells) : NotNa(cells[q])}}

\* groupby(group_col)[value_col].sum() of one key: the sum of the
\* non-missing values of its rows.
GroupTotal(df, group_col, value_col, key) ==
    LET g == Col(df, group_col).cells
        v == Col(df, value_col).cells
    IN  SumAt({p \in 1..Len(g) : g[p] = key /\ NotNa(v[p])}, v, Ones(v))

RECURSIVE DescendingOrders(_, _, _, _)
\* sort_values(ascending=False) of the totals: every order of the keys in
\* which the totals never increase (equal totals in either order).
DescendingOrders(df, group_col, value_col, keys) ==
    IF keys = {} THEN {<<>>}
    ELSE UNION { { <<[label |-> key, total |-> GroupTotal(df, group_col, value_col, key)]>>
                       \o rest :
                   rest \in DescendingOrders(df, group_col, value_col, keys \ {key}) } :
                 key \in {k \in keys : \A other \in keys :
                             GroupTotal(df, group_col, value_col, k)
                                 >= GroupTotal(df, group_col, value_col, other)} }

\* The sorted totals a call can work with: one order, or one of several
\* where totals are equal; the empty series where nothing is ranked.
GroupedChoices(df) ==
    IF RanksPerformers(df)
    THEN DescendingOrders(df, GroupCol(df), ValueCol(df), GroupKeys(df, GroupCol(df)))
    ELSE {<<>>}

\* The n of identify_top_bottom_performers(df, group_col, value_col, n=10).
TopN == 10

\* Series.head(n) and Series.tail(n)
HeadN(seq, n) == SubSeq(seq, 1, IF Len(seq) < n THEN Len(seq) ELSE n)

\* The first n entries where the last n are asked for.
FirstRows(seq, n) == SubSeq(seq, 1, IF Len(seq) < n THEN Len(seq) ELSE n)

TailN(seq, n) == SubSeq(seq, IF Len(seq) < n THEN 1 ELSE Len(seq) - n + 1, Len(seq))

\* f"Total {value_col}"
TotalName(value_col) == <<"T","o","t","a","l"," ">> \o value_col

\* No table (None), and a table of labels and totals.
NoTable == [some |-> FALSE, columns |-> <<>>, rows |-> <<>>]

RankTable(group_col, value_col, rows) ==
    [some |-> TRUE, columns |-> <<group_col, TotalName(value_col)>>, rows |-> rows]

\* identify_top_bottom_performers(df, group_col, value_col, n), on the
\* sorted totals grouped: the first n and the last n of them.
identify_top_bottom_performers(grouped, group_col, value_col, n) ==
    [top    |-> RankTable(group_col, value_col, HeadN(grouped, n)),
     bottom |-> RankTable(group_col, value_col, TailN(grouped, n))]

\* Lines 268-273: the two callouts, of grouped.index[0] and
\* grouped.index[-1]; an empty grouped raises IndexError at line 269,
\* which line 274 swallows, and nothing is appended.
PerformerSections(df, grouped) ==
    IF ~RanksPerformers(df) \/ Len(grouped) = 0 THEN <<>>
    ELSE LET dtype == Col(df, GroupCol(df)).dtype
             first == grouped[1]
             last  == grouped[Len(grouped)]
         IN  << Section("top", <<Line("top", ValueCol(df), CellStr(first.label, dtype),
                                       Thousands(first.total), 0, 0, 0)>>),
                Section("bottom", <<Line("bottom", ValueCol(df), CellStr(last.label, dtype),
                                          Thousands(last.total), 0, 0, 0)>>) >>

----------------------------------------------------------------------------
(* Insights (insights.py): the sections of the narrative *)

RECURSIVE Flatten(_)
\* The concatenation of a sequence of sequences.
Flatten(seqs) == IF Len(seqs) = 0 THEN <<>> ELSE Head(seqs) \o Flatten(Tail(seqs))

HasMissing(col) == NullCount(col.cells) > 0

\* The col of cols_with_missing.index[:5] and of numeric_cols[:5].
FirstFive == 5

\* detect_missing_values(df) for df not None: the header and a line for
\* each of the first five columns that have missing cells, or the line
\* that none has.
detect_missing_values(df) ==
    LET cols_with_missing == SelectSeq(df.cols, HasMissing)
        shown == HeadN(cols_with_missing, FirstFive)
    IN  IF Len(cols_with_missing) > 0
        THEN <<Line("missing_header", <<>>, <<>>, <<>>, Len(cols_with_missing), 0, 0)>>
             \o [j \in 1..Len(shown) |->
                    Line("missing_col", shown[j].name, <<>>, <<>>,
                         NullCount(shown[j].cells),
                         PctTenths(NullCount(shown[j].cells), NRows(df)), 0)]
        ELSE <<Line("no_missing", <<>>, <<>>, <<>>, 0, 0, 0)>>

\* The number of values of a column, whatever their sign.
NonMissingCount(col) == Len(Values(col.cells))

\* (df[col] < 0).sum()
NegativeCount(col) == Len(SelectSeq(Values(col.cells), LAMBDA x : x < 0))

\* Lines 102-107: the negative-value line of one numeric column.
NegativeLines(col) ==
    IF HasKeyword(col.name, negative_keywords) /\ NegativeCount(col) > 0
    THEN <<Line("negative", col.name, <<>>, <<>>, NegativeCount(col), 0, 0)>>
    ELSE <<>>

\* The n_std of detect_anomalies(df, n_std=3).
NStd == 3

\* x < mean - n_std * std or x > mean + n_std * std, for std > 0:
\* (x - mean)^2 > n_std^2 * std^2, with mean = sum / n and
\* std^2 = Spread / (n * (n - 1)).
IsOutlier(x, xs) ==
    LET n == Len(xs)
        d == n * x - SeqSum(xs)
    IN  d * d * (n - 1) > NStd * NStd * n * Spread(xs)

\* The outlier line without the test of the count against the rows.
OutlierLinesUngated(df, col) ==
    LET xs == Values(col.cells)
        outliers == Len(SelectSeq(xs, LAMBDA x : IsOutlier(x, xs)))
    IN  IF Len(xs) >= 2 /\ Spread(xs) > 0 /\ 0 < outliers
        THEN <<Line("outlier", col.name, <<>>, <<>>, outliers,
                    PctTenths(outliers, NRows(df)), NStd)>>
        ELSE <<>>

\* Lines 110-120: the outlier line of one numeric column; std > 0 is
\* False for NaN (fewer than two values) and for a constant column.
OutlierLines(df, col) ==
    LET xs == Values(col.cells)
        outliers == Len(SelectSeq(xs, LAMBDA x : IsOutlier(x, xs)))
    IN  IF Len(xs) >= 2 /\ Spread(xs) > 0 /\ 0 < outliers /\ 10 * outliers < NRows(df)
        THEN <<Line("outlier", col.name, <<>>, <<>>, outliers,
                    PctTenths(outliers, NRows(df)), NStd)>>
        ELSE <<>>

\* detect_anomalies(df) for df not None: the lines of the first five
\* numeric columns, or the line that nothing was found.
detect_anomalies(df) ==
    LET numeric_cols == HeadN(NumberColumns(df), FirstFive)
        found == Flatten([j \in 1..Len(numeric_cols) |->
                            NegativeLines(numeric_cols[j]) \o OutlierLines(df, numeric_cols[j])])
    IN  IF Len(found) > 0 THEN found
        ELSE <<Line("no_anomalies", <<>>, <<>>, <<>>, 0, 0, 0)>>

\* df.groupby(df[date_col].dt.date).size(): the days that occur and how
\* many rows lie on each.
DaysOf(xs) == {DayOf(xs[i]) : i \in 1..Len(xs)}

DailyCount(xs, day) == Cardinality({i \in 1..Len(xs) : DayOf(xs[i]) = day})

\* daily_counts.idxmax() and idxmin(): the first day, in date order, of
\* the largest and of the smallest count.
BusiestDay(xs) ==
    LET most == {d \in DaysOf(xs) : \A e \in DaysOf(xs) : DailyCount(xs, d) >= DailyCount(xs, e)}
    IN  CHOOSE d \in most : \A e \in most : d <= e

SlowestDay(xs) ==
    LET fewest == {d \in DaysOf(xs) : \A e \in DaysOf(xs) : DailyCount(xs, d) <= DailyCount(xs, e)}
    IN  CHOOSE d \in fewest : \A e \in fewest : d <= e

\* analyze_date_trends(df) for df not None.  With no datetime column the
\* text is empty.  With one, min() and max() of the first skip NaT; when
\* it holds no timestamp they are NaT and NaT.strftime raises ValueError
\* at line 148, outside any try.
analyze_date_trends(df) ==
    LET date_cols == DatetimeColumns(df)
        xs == Values(date_cols[1].cells)
        lo == Least(xs).num
        hi == Greatest(xs).num
    IN  IF Len(date_cols) = 0 THEN [raised |-> FALSE, lines |-> <<>>]
        ELSE IF Len(xs) = 0 THEN [raised |-> TRUE, lines |-> <<>>]
        ELSE [raised |-> FALSE,
              lines |->
                << Line("date_range", date_cols[1].name, DayStr(DayOf(lo)), DayStr(DayOf(hi)),
                        (hi - lo) \div TicksPerDay, 0, 0),
                   Line("busiest_day", date_cols[1].name, DayStr(BusiestDay(xs)), <<>>,
                        DailyCount(xs, BusiestDay(xs)), 0, 0),
                   Line("slowest_day", date_cols[1].name, DayStr(SlowestDay(xs)), <<>>,
                        DailyCount(xs, SlowestDay(xs)), 0, 0) >>]

\* generate_dataset_summary(df) for df not None: the size, the memory
\* usage (its figure is not modelled) and the number of numeric,
\* categorical and datetime columns.
generate_dataset_summary(df) ==
    << Line("size", <<>>, <<>>, <<>>, NRows(df), Len(df.cols), 0),
       Line("memory", <<>>, <<>>, <<>>, 0, 0, 0),
       Line("types", <<>>, <<>>, <<>>, Len(NumberColumns(df)), Len(ObjectColumns(df)),
            Len(DatetimeColumns(df))) >>

\* What a call of generate_all_insights comes to: it raised, or it
\* returned (top_df, bottom_df, the sections joined by blank lines).
InsightsRaised ==
    [done |-> TRUE, raised |-> TRUE, top |-> NoTable, bottom |-> NoTable, text |-> <<>>]

InsightsReturned(top, bottom, text) ==
    [done |-> TRUE, raised |-> FALSE, top |-> top, bottom |-> bottom, text |-> text]

\* The sections with the dataset summary put first.
SummaryFirst(performers, missing, anomalies, dates, summary) ==
    <<Section("summary", summary)>>
        \o performers
        \o <<Section("missing", missing)>>
        \o <<Section("anomalies", anomalies)>>
        \o (IF Len(dates) > 0 THEN <<Section("temporal", dates)>> ELSE <<>>)

\* insights_sections as lines 268-289 append to it: the callouts, the
\* missing values, the anomalies, the date trends if the text is not
\* empty, and the dataset summary.
JoinSections(performers, missing, anomalies, dates, summary) ==
    performers
        \o <<Section("missing", missing)>>
        \o <<Section("anomalies", anomalies)>>
        \o (IF Len(dates) > 0 THEN <<Section("temporal", dates)>> ELSE <<>>)
        \o <<Section("summary", summary)>>

\* generate_all_insights(df) for df not None, where grouped is what
\* groupby(group_col)[value_col].sum().sort_values(ascending=False) gave
\* (lines 34 and 267 compute it from the same data).
generate_all_insights(df, grouped) ==
    LET tables == identify_top_bottom_performers(grouped, GroupCol(df), ValueCol(df), TopN)
        dates == analyze_date_trends(df)
    IN  IF dates.raised THEN InsightsRaised
        ELSE InsightsReturned(
                 IF RanksPerformers(df) THEN tables.top ELSE NoTable,
                 IF RanksPerformers(df) THEN tables.bottom ELSE NoTable,
                 JoinSections(PerformerSections(df, grouped),
                              detect_missing_values(df),
                              detect_anomalies(df),
                              dates.lines,
                              generate_dataset_summary(df)))

----------------------------------------------------------------------------
(* SpecReport: generate_statistics and generate_all_insights on a dataset *)

Quantity == <<"Q","u","a","n","t","i","t","y">>

Code == <<"C","o","d","e">>

Label == <<"L","a","b","e","l">>

StoreId == <<"S","t","o","r","e","I","d">>

Region == <<"R","e","g","i","o","n">>

Units == <<"U","n","i","t","s">>

Weight == <<"W","e","i","g","h","t">>

Height == <<"H","e","i","g","h","t">>

Depth == <<"D","e","p","t","h">>

TxtA == <<"a">>

TxtB == <<"b">>

\* The column layouts of the typed tables that are profiled and narrated:
\* the performers of a country by sales; a quantity with negative values
\* beside a price; candidates for the grouping column, with and without a
\* priority keyword; a datetime column, possibly all NaT.
ReportSchemas ==
    { <<Field(Country, DtObject, {NA, Str(TxtUS), Str(TxtFR)}),
        Field(Sales, DtFloat, {NA, Num(100), Num(200), Num(50)})>>,
      <<Field(Quantity, DtFloat, {NA, Num(-1), Num(2)}),
        Field(Price, DtInt, {Num(3), Num(5)})>>,
      <<Field(Code, DtInt, {Num(1), Num(2)}),
        Field(Label, DtObject, {Str(TxtA), Str(TxtB)})>>,
      <<Field(StoreId, DtInt, {Num(1), Num(2)}),
        Field(Region, DtObject, {NA, Str(TxtB), Str(TxtA)})>>,
      <<Field(OrderDate, DtDatetime, {NA, Ts(Jan5), Ts(Jan6 - 1)}),
        Field(Label, DtObject, {NA, Str(TxtA)})>> }

\* A layout of six numeric columns: detect_anomalies looks at five.
WideSchema ==
    << Field(Units, DtInt, {Num(1)}),
       Field(Weight, DtInt, {Num(1)}),
       Field(Height, DtInt, {Num(1)}),
       Field(Depth, DtInt, {Num(-1), Num(1)}),
       Field(Price, DtInt, {Num(-1), Num(1)}),
       Field(Sales, DtInt, {Num(-1), Num(1)}) >>

\* Tables of one more row than identify_top_bottom_performers lists
\* groups: a store in each row with the sales rising or falling, and one
\* store in every row with the sales level but for one far value.
LongRows == TopN + 1

LongColumns ==
    { [stores |-> [i \in 1..LongRows |-> Num(i)],
       sales  |-> [i \in 1..LongRows |-> Num(100 * i)]],
      [stores |-> [i \in 1..LongRows |-> Num(i)],
       sales  |-> [i \in 1..LongRows |-> Num(LongRows - i)]],
      [stores |-> [i \in 1..LongRows |-> Num(1)],
       sales  |-> [i \in 1..LongRows |-> IF i = 1 THEN Num(100) ELSE Num(1)]],
      [stores |-> [i \in 1..LongRows |-> Num(1 + (i % 2))],
       sales  |-> [i \in 1..LongRows |-> IF i = 2 THEN Num(-100) ELSE Num(1 + (i % 2))]] }

LongTables ==
    { [index |-> RangeIndex(LongRows),
       cols  |-> << [name |-> StoreId, dtype |-> DtInt, cells |-> c.stores],
                    [name |-> Sales, dtype |-> DtInt, cells |-> c.sales] >>] :
      c \in LongColumns }

\* Tables of the kind a sales file gives: three orders of two
\* countries; a quantity that is negative once among a hundred positive
\* values; dated orders of two countries; and units with two far values
\* among twenty, in twenty rows and in twenty-one rows of which one is
\* empty.
ScenarioTables ==
    { [index |-> RangeIndex(2),
       cols  |-> << [name |-> OrderDate, dtype |-> DtDatetime,
                     cells |-> <<Ts(Jan5), Ts(Jan6 - 1)>>],
                    [name |-> Country, dtype |-> DtObject,
                     cells |-> <<Str(TxtUS), Str(TxtFR)>>],
                    [name |-> Sales, dtype |-> DtInt,
                     cells |-> <<Num(100), Num(50)>>] >>],
      [index |-> RangeIndex(20),
       cols  |-> << [name |-> Units, dtype |-> DtInt,
                     cells |-> [i \in 1..20 |->
                                   IF i = 1 THEN Num(5) ELSE IF i = 2 THEN Num(-5)
                                   ELSE Num(0)]] >>],
      [index |-> RangeIndex(21),
       cols  |-> << [name |-> Units, dtype |-> DtFloat,
                     cells |-> [i \in 1..21 |->
                                   IF i = 1 THEN Num(5) ELSE IF i = 2 THEN Num(-5)
                                   ELSE IF i = 21 THEN NA ELSE Num(0)]] >>],
      [index |-> RangeIndex(3),
       cols  |-> << [name |-> Country, dtype |-> DtObject,
                     cells |-> <<Str(TxtUS), Str(TxtUS), Str(TxtFR)>>],
                    [name |-> Sales, dtype |-> DtInt,
                     cells |-> <<Num(100), Num(200), Num(50)>>] >>],
      [index |-> RangeIndex(101),
       cols  |-> << [name |-> Quantity, dtype |-> DtInt,
                     cells |-> [i \in 1..101 |->
                                   IF i = 1 THEN Num(-1) ELSE Num(5)]] >>] }

ReportTables ==
    TablesWithRows(ReportSchemas, 0..MaxReportRows)
        \cup TablesWithRows({WideSchema}, {0, 1, 2})
        \cup LongTables
        \cup ScenarioTables

InitReport ==
    /\ df_state \in { Some(t) : t \in ReportTables }
    /\ stats = NoResult
    /\ insights = NoResult
    /\ call = "none"
    /\ ctl = NoFilters
    /\ out = Returned(EmptyFrame)
    /\ raw = EmptyFrame
    /\ typed = None
    /\ retyped = None
    /\ stage = "idle"
    /\ FrameIdle
    /\ SessionIdle

\* stats_button.click: generate_statistics on df_state.
GenerateStatistics ==
    /\ df_state.some
    /\ ~stats.done
    /\ stats' = generate_statistics(df_state.df)
    /\ UNCHANGED <<insights, inferVars, filterVars, frameVars>>
    /\ UNCHANGED sessionVars

\* insights_btn.click: generate_all_insights on df_state; the sort of the
\* group totals has come out in one of the orders it can.
GenerateInsights ==
    /\ df_state.some
    /\ ~insights.done
    /\ \E grouped \in GroupedChoices(df_state.df) :
           insights' = generate_all_insights(df_state.df, grouped)
    /\ UNCHANGED <<stats, inferVars, filterVars, frameVars>>
    /\ UNCHANGED sessionVars

NextReport == GenerateStatistics \/ GenerateInsights

SpecReport == InitReport /\ [][NextReport]_vars

----------------------------------------------------------------------------
(* The narrative and the profile of a table without rows, and whether     *)
(* generate_all_insights raises                                           *)

\* The blocks the sections of a narrative come from, in order.
Parts(text) == [i \in 1..Len(text) |-> text[i].part]

\* The first datetime column of the table holds no timestamp.
FirstDatetimeBlank(df) ==
    /\ Len(DatetimeColumns(df)) > 0
    /\ Len(Values(DatetimeColumns(df)[1].cells)) = 0

\* C11: generate_all_insights never raises: for every table, those of zero
\* rows and those whose first datetime column has only missing cells
\* included, the call returns its result.
C11_AsStated == insights.done => ~insights.raised

\* What holds instead: the call raises exactly on the tables whose first
\* datetime column holds no timestamp.
C11_RaisesOnBlankDates == insights.done => (insights.raised <=> FirstDatetimeBlank(Df))

\* C12: for a table of zero rows the narrative is the dataset summary
\* alone, with no performer, missing-data, anomaly or temporal section.
C12_AsStated ==
    (insights.done /\ ~insights.raised /\ NRows(Df) = 0)
        => Parts(insights.text) = <<"summary">>

\* What holds instead: the narrative of a table of zero rows is the
\* missing-data section, the anomaly section and the summary.
C12_ThreeSections ==
    (insights.done /\ ~insights.raised /\ NRows(Df) = 0)
        => Parts(insights.text) = <<"missing", "anomalies", "summary">>

\* C13: for a table of zero rows, whatever its columns, numeric_summary
\* is an empty table, correlation_matrix is an empty matrix and
\* missing_values_report has every column of the table with the count 0.
C13_EmptyProfile ==
    (stats.done /\ NRows(Df) = 0)
        => /\ stats.num = <<>>
           /\ stats.corr = [names |-> <<>>, r |-> <<>>]
           /\ Len(stats.missing) = Len(Df.cols)
           /\ \A j \in 1..Len(Df.cols) :
                  stats.missing[j] = [col |-> Df.cols[j].name, count |-> 0]

\* A table of zero rows that has numeric columns was profiled.
C13_Witness ==
    /\ stats.done
    /\ NRows(Df) = 0
    /\ Len(NumberColumns(Df)) > 0
    /\ stats.num = <<>>
    /\ Len(stats.missing) = Len(Df.cols)

----------------------------------------------------------------------------
(* The performer ranking *)

\* The smaller of two numbers.
Min(a, b) == IF a < b THEN a ELSE b

\* The sum of the value column over the rows of one group, row by row.
TotalOf(df, key) ==
    LET g == Col(df, GroupCol(df)).cells
        v == Col(df, ValueCol(df)).cells
    IN  SeqSum([p \in 1..Len(g) |-> IF g[p] = key /\ NotNa(v[p]) THEN v[p].n ELSE 0])

\* The groups of the table: the values of the grouping column.
Groups(df) == GroupKeys(df, GroupCol(df))

\* The rows of a ranking table carry the totals of distinct groups and
\* never rise from one row to the next.
IsRanking(df, rows) ==
    /\ \A i \in 1..Len(rows) :
           rows[i].label \in Groups(df) /\ rows[i].total = TotalOf(df, rows[i].label)
    /\ \A i, j \in 1..Len(rows) : i < j =>
           rows[i].label # rows[j].label /\ rows[i].total >= rows[j].total

\* The callout of a section: the group it names and the total it gives.
Callout(text, part) ==
    LET i == CHOOSE k \in 1..Len(text) : text[k].part = part
    IN  text[i].lines[1]

\* A ranking was made of at least one group.
Ranked ==
    /\ insights.done /\ ~insights.raised
    /\ RanksPerformers(Df)
    /\ Groups(Df) # {}

\* C14: where a grouping column and a different value column are chosen
\* and the table has a group: the top table is the first 10 and the bottom
\* table the last 10 groups of the totals (the sums of the value column
\* over the rows of each group) in descending order, and the narrative
\* names a group of the largest total as top performer and a group of the
\* smallest total as bottom performer, each with its total.
C14_PerformerRanking ==
    Ranked =>
        LET top == insights.top.rows
            bottom == insights.bottom.rows
            count == Min(Cardinality(Groups(Df)), TopN)
            dtype == Col(Df, GroupCol(Df)).dtype
        IN  /\ insights.top.some /\ insights.bottom.some
            /\ Len(top) = count /\ Len(bottom) = count
            /\ IsRanking(Df, top) /\ IsRanking(Df, bottom)
            /\ \A key \in Groups(Df) :
                   /\ (\A i \in 1..count : top[i].label # key)
                          => \A i \in 1..count : TotalOf(Df, key) <= top[i].total
                   /\ (\A i \in 1..count : bottom[i].label # key)
                          => \A i \in 1..count : TotalOf(Df, key) >= bottom[i].total
            /\ Parts(insights.text)[1] = "top" /\ Parts(insights.text)[2] = "bottom"
            /\ Callout(insights.text, "top").txt = CellStr(top[1].label, dtype)
            /\ Callout(insights.text, "top").txt2 = Thousands(top[1].total)
            /\ Callout(insights.text, "bottom").txt = CellStr(bottom[count].label, dtype)
            /\ Callout(insights.text, "bottom").txt2 = Thousands(bottom[count].total)

\* The orders of US, US, FR with the sales 100, 200, 50 were ranked: US
\* with 300 is the top performer and FR with 50 the bottom performer.
C14_Witness ==
    /\ Ranked
    /\ HasCol(Df, Country) /\ HasCol(Df, Sales)
    /\ Col(Df, Country).cells = <<Str(TxtUS), Str(TxtUS), Str(TxtFR)>>
    /\ Col(Df, Sales).cells = <<Num(100), Num(200), Num(50)>>
    /\ Callout(insights.text, "top").txt = TxtUS
    /\ Callout(insights.text, "top").txt2 = <<"3", "0", "0">>
    /\ Callout(insights.text, "bottom").txt = TxtFR
    /\ Callout(insights.text, "bottom").txt2 = <<"5", "0">>

\* A table of more groups than a ranking table lists was ranked: the
\* group of the smallest total is not in the top table and the group of
\* the largest total is not in the bottom table.
C14_WitnessMoreThanN ==
    /\ Ranked
    /\ Cardinality(Groups(Df)) > TopN
    /\ Len(insights.top.rows) = TopN
    /\ Len(insights.bottom.rows) = TopN
    /\ insights.top.rows[1] # insights.bottom.rows[1]

----------------------------------------------------------------------------
(* The negative-value flag *)

\* The lines of one section of a narrative; none where it is absent.
LinesOf(text, part) ==
    IF \E k \in 1..Len(text) : text[k].part = part
    THEN text[CHOOSE k \in 1..Len(text) : text[k].part = part].lines
    ELSE <<>>

\* The negative-value lines of the anomaly section that name a column.
NegativeFlags(text, name) ==
    SelectSeq(LinesOf(text, "anomalies"), LAMBDA l : l.kind = "negative" /\ l.col = name)

\* The number of negative values of a column, cell by cell.
Negatives(col) ==
    Cardinality({p \in 1..Len(col.cells) : NotNa(col.cells[p]) /\ col.cells[p].n < 0})

\* The name suggests a quantity that is not negative.
NamesQuantity(col) == HasKeyword(col.name, negative_keywords)

\* C15: each of the first 5 numeric columns, in column order, whose name
\* contains quantity, amount, price or sales has a negative-value line
\* if and only if it has a negative value, and the line counts its
\* negative values; no other column has such a line.
C15_NegativeFlag ==
    (insights.done /\ ~insights.raised) =>
        LET numeric == NumberColumns(Df)
        IN  /\ \A j \in 1..Len(numeric) :
                   LET flags == NegativeFlags(insights.text, numeric[j].name)
                   IN  IF j <= FirstFive /\ NamesQuantity(numeric[j]) /\ Negatives(numeric[j]) > 0
                       THEN Len(flags) = 1 /\ flags[1].n = Negatives(numeric[j])
                       ELSE Len(flags) = 0
            /\ \A i \in 1..Len(LinesOf(insights.text, "anomalies")) :
                   LinesOf(insights.text, "anomalies")[i].kind = "negative"
                       => \E j \in 1..Len(numeric) :
                              numeric[j].name = LinesOf(insights.text, "anomalies")[i].col

\* A Quantity of one negative value among 100 positive values was
\* flagged with exactly 1.
C15_Witness ==
    /\ insights.done /\ ~insights.raised
    /\ HasCol(Df, Quantity)
    /\ Negatives(Col(Df, Quantity)) = 1
    /\ Len(Values(Col(Df, Quantity).cells)) = 101
    /\ Len(NegativeFlags(insights.text, Quantity)) = 1
    /\ NegativeFlags(insights.text, Quantity)[1].n = 1

\* Of six numeric columns the fifth and the sixth have negative values:
\* Price is flagged, Sales behind it is not looked at.
C15_WitnessSixth ==
    /\ insights.done /\ ~insights.raised
    /\ Len(NumberColumns(Df)) = 6
    /\ Negatives(NumberColumns(Df)[5]) = 2
    /\ Negatives(NumberColumns(Df)[6]) > 0
    /\ NegativeFlags(insights.text, Price)[1].n = 2
    /\ Len(NegativeFlags(insights.text, Sales)) = 0

----------------------------------------------------------------------------
(* The missing-value report *)

\* The cells of a column that are missing, and those that are not.
MissingCells(col) == {p \in 1..Len(col.cells) : col.cells[p].k = "na"}

PresentCells(col) == {p \in 1..Len(col.cells) : col.cells[p].k \in {"str", "num", "ts"}}

\* C16: missing_values_report has one entry for every column of the
\* table, whatever its kind; the entry is the number of missing cells of
\* the column, and the entries add up to the number of cells of the table
\* less the number of cells that are not missing.
C16_MissingAccounting ==
    stats.done =>
        /\ Len(stats.missing) = Len(Df.cols)
        /\ \A j \in 1..Len(Df.cols) :
               /\ stats.missing[j].col = Df.cols[j].name
               /\ stats.missing[j].count = Cardinality(MissingCells(Df.cols[j]))
        /\ SeqSum([j \in 1..Len(stats.missing) |-> stats.missing[j].count])
               = NRows(Df) * Len(Df.cols)
                     - SeqSum([j \in 1..Len(Df.cols) |-> Cardinality(PresentCells(Df.cols[j]))])

\* A table with missing cells in a datetime column and in a text column
\* was reported.
C16_Witness ==
    /\ stats.done
    /\ \E j \in 1..Len(Df.cols) :
           Kind(Df.cols[j]) = "Datetime" /\ stats.missing[j].count > 0
    /\ \E j \in 1..Len(Df.cols) :
           Kind(Df.cols[j]) = "Categorical" /\ stats.missing[j].count > 0
    /\ \E j \in 1..Len(Df.cols) : PresentCells(Df.cols[j]) # {}

----------------------------------------------------------------------------
(* The shape of the correlation matrix *)

\* The entries of the matrix mirror each other.
Symmetric(corr) ==
    \A i, j \in 1..Len(corr.names) : corr.r[i][j] = corr.r[j][i]

\* C17: the matrix of correlation_matrix is symmetric and its diagonal
\* entry is 1.0 for every numeric column, a column of equal values and a
\* column of fewer than two values included.
C17_AsStated ==
    stats.done =>
        /\ Symmetric(stats.corr)
        /\ \A i \in 1..Len(stats.corr.names) : IsOne(stats.corr.r[i][i])

\* What holds instead: the entries mirror each other, and the diagonal
\* entry of a column is 1.0 where the column has two different values and
\* NaN where it has not.
C17_DiagonalOneOrNaN ==
    (stats.done /\ NRows(Df) > 0) =>
        /\ Symmetric(stats.corr)
        /\ Len(stats.corr.names) = Len(NumberColumns(Df))
        /\ \A i \in 1..Len(NumberColumns(Df)) :
               IF NUnique(NumberColumns(Df)[i].cells) >= 2
               THEN IsOne(stats.corr.r[i][i])
               ELSE stats.corr.r[i][i].nan

----------------------------------------------------------------------------
(* SpecFrame: the stages on table objects.  The heap is the sequence of   *)
(* the table objects that exist; a reference is a position in it.  A      *)
(* stage is given a reference and works on the heap as its code does:     *)
(* copy() and a mask give a new object, an assignment to a column writes  *)
(* into the object the name is bound to.                                  *)

\* A heap and the object a name is bound to in it.
Ref(h, id) == [heap |-> h, ref |-> id, raised |-> FALSE]

\* An exception leaves the stage: nothing is returned.
RefRaised(h) == [heap |-> h, ref |-> 0, raised |-> TRUE]

\* The same object under another name, where a copy is asked for.
HeapAlias(h, id) == Ref(h, id)

\* df.copy(): a new object of the same content.
HeapCopy(h, id) == Ref(Append(h, h[id]), Len(h) + 1)

\* filtered[mask], pd.DataFrame(), select_dtypes(...): a new object.
HeapNew(h, df) == Ref(Append(h, df), Len(h) + 1)

\* df[col] = converted: the object itself is written.
HeapSet(h, id, df) == Ref([h EXCEPT ![id] = df], id)

\* The content of the object a name is bound to.
Deref(r) == r.heap[r.ref]

\* name = name[mask] where the statement is reached, else the name keeps
\* its object.
Rebind(r, reached, df) == IF reached THEN HeapNew(r.heap, df) ELSE r

\* clean_and_infer_types(df): df = df.copy() (line 59), then the loop
\* assigns the converted columns into that object (lines 76 and 86).
FrameInfer(h, id) ==
    LET df == HeapCopy(h, id)
    IN  HeapSet(df.heap, df.ref, clean_and_infer_types(Deref(df)))

\* The dashboard's apply_filters: filtered = df.copy() (line 247), a new
\* object from each mask, and the assignment of line 263 into filtered.
FrameAppFilters(h, id, f) ==
    LET copied == HeapCopy(h, id)
        cat == Rebind(copied, f.cat_col # NoCol /\ f.cat_vals # {},
                      AppCatStep(Returned(Deref(copied)), f).df)
        numbered == AppNumStep(Returned(Deref(cat)), f)
        num == Rebind(cat, HasCol(Deref(cat), f.num_col) /\ (f.n_min.some \/ f.n_max.some),
                      numbered.df)
        coerced == IF HasCol(Deref(num), f.date_col)
                   THEN HeapSet(num.heap, num.ref, AppCoerceDate(Deref(num), f.date_col))
                   ELSE num
        start == Rebind(coerced,
                        HasCol(Deref(num), f.date_col) /\ f.d_start # <<>> /\ BoundParses(f.d_start),
                        AppDateStart(Deref(coerced), f.date_col, f.d_start))
        end == Rebind(start,
                      HasCol(Deref(num), f.date_col) /\ f.d_end # <<>> /\ BoundParses(f.d_end),
                      AppDateEnd(Deref(start), f.date_col, f.d_end))
    IN  IF numbered.raised THEN RefRaised(cat.heap) ELSE end

\* utils.apply_filters: pd.DataFrame() for an empty df (line 66), else
\* filtered_df = df.copy() (line 68) and a new object from each mask;
\* nothing is assigned into a table.
FrameUtilsFilters(h, id, f) ==
    LET copied == HeapCopy(h, id)
        o == UtilsApply(Deref(copied), f)
    IN  IF IsEmptyFrame(h[id]) THEN HeapNew(h, EmptyFrame)
        ELSE IF o.raised THEN RefRaised(copied.heap)
        ELSE Rebind(copied, f.num_col # NoCol \/ f.cat_col # NoCol \/ f.date_col # NoCol, o.df)

\* The selection df.select_dtypes(...) makes: a new table of some columns.
Selection(df, cols) == [index |-> df.index, cols |-> cols]

\* The profiling functions: numeric_df and cat_df are new objects
\* (data_processor.py lines 143, 168 and 208); df is only read.
FrameProfile(h, id) ==
    LET numeric_df == HeapNew(h, Selection(h[id], NumberColumns(h[id])))
    IN  HeapNew(numeric_df.heap, Selection(h[id], ObjectColumns(h[id])))

\* The tables as read from the uploaded files.
FrameTables == FilterRawTables

\* The table object read from the file is the only one.
InitFrame ==
    /\ raw \in FrameTables
    /\ heap = <<raw>>
    /\ passed = 0
    /\ ran = [stage |-> "none", returned |-> 0]
    /\ typed = None
    /\ retyped = None
    /\ stage = "raw"
    /\ FilterIdle
    /\ ReportIdle
    /\ SessionIdle

\* load_data: clean_and_infer_types on the object read; handle_upload
\* keeps the object returned as df_state.
FrameLoad ==
    /\ ran.stage = "none"
    /\ LET r == FrameInfer(heap, 1)
       IN  /\ heap' = r.heap
           /\ passed' = 1
           /\ ran' = [stage |-> "infer", returned |-> r.ref]
           /\ df_state' = Some(Deref(r))
    /\ UNCHANGED <<call, ctl, out, inferVars, reportVars>>
    /\ UNCHANGED sessionVars

\* A stage was given the object of df_state and came to r.
StageRan(name, r) ==
    /\ heap' = r.heap
    /\ passed' = ran.returned
    /\ ran' = [stage |-> name, returned |-> r.ref]

\* apply_btn.click: the dashboard's apply_filters on the object of df_state.
FrameApplyFilters ==
    /\ ran.stage = "infer"
    /\ \E f \in FilterInputs : StageRan("app", FrameAppFilters(heap, ran.returned, f))
    /\ UNCHANGED <<filterVars, inferVars, reportVars>>
    /\ UNCHANGED sessionVars

\* utils.apply_filters on the object of df_state.
FrameUtilsCall ==
    /\ ran.stage = "infer"
    /\ \E f \in FilterInputs : StageRan("utils", FrameUtilsFilters(heap, ran.returned, f))
    /\ UNCHANGED <<filterVars, inferVars, reportVars>>
    /\ UNCHANGED sessionVars

\* stats_button.click: the profiling functions on the object of df_state.
FrameStatistics ==
    /\ ran.stage = "infer"
    /\ StageRan("profile", Ref(FrameProfile(heap, ran.returned).heap, 0))
    /\ stats' = generate_statistics(df_state.df)
    /\ UNCHANGED <<insights, filterVars, inferVars>>
    /\ UNCHANGED sessionVars

\* insights_btn.click: generate_all_insights on the object of df_state;
\* it reads df and builds its tables from groupby results.
FrameInsights ==
    /\ ran.stage = "infer"
    /\ StageRan("insights", Ref(heap, 0))
    /\ \E grouped \in GroupedChoices(df_state.df) :
           insights' = generate_all_insights(df_state.df, grouped)
    /\ UNCHANGED <<stats, filterVars, inferVars>>
    /\ UNCHANGED sessionVars

NextFrame ==
    FrameLoad \/ FrameApplyFilters \/ FrameUtilsCall \/ FrameStatistics \/ FrameInsights

SpecFrame == InitFrame /\ [][NextFrame]_vars

\* The stages on objects come to the tables the stages are defined to
\* return.
FrameAgrees ==
    /\ ran.stage = "infer" => heap[ran.returned] = clean_and_infer_types(raw)
    /\ (ran.stage \in {"app", "utils"} /\ ran.returned # 0) =>
           \E f \in FilterInputs :
               heap[ran.returned] = (IF ran.stage = "app" THEN AppApplyFilters(df_state.df, f)
                                     ELSE UtilsApply(df_state.df, f)).df

\* C18: no stage changes the table it is given.  After
\* clean_and_infer_types, either apply_filters, the profiling functions
\* or generate_all_insights, the object passed in has the columns, dtypes
\* and cells it had before the call, and a table that is returned is
\* another object.
C18_InputUntouched ==
    /\ ran.stage = "infer" => heap[passed] = raw
    /\ ran.stage \in {"app", "utils", "profile", "insights"} =>
           heap[passed] = df_state.df /\ heap[1] = raw
    /\ ran.returned # 0 => ran.returned # passed

\* The dashboard's apply_filters parsed a text column of the table it
\* was given and dropped no row: the table returned has the parsed
\* column, the table passed in is as it was.
C18_Witness ==
    /\ ran.stage = "app"
    /\ ran.returned # 0
    /\ heap[passed] = df_state.df
    /\ NRows(heap[ran.returned]) = NRows(heap[passed])
    /\ NRows(heap[passed]) > 0
    /\ heap[ran.returned] # heap[passed]

\* clean_and_infer_types converted a column: the table returned differs
\* from the table read, which is as it was.
C18_WitnessInfer ==
    /\ ran.stage = "infer"
    /\ heap[passed] = raw
    /\ heap[ran.returned] # raw

----------------------------------------------------------------------------
(* The kinds of the columns behind a filter, and the grouping column *)

\* Every column of the table returned is a column of the table given,
\* of the same kind.
KindsKept(given, returned) ==
    \A j \in 1..Len(returned.cols) :
        /\ HasCol(given, returned.cols[j].name)
        /\ Kind(returned.cols[j]) = Kind(Col(given, returned.cols[j].name))

\* C19: the kinds of the columns are stable behind type inference: every
\* column of the table a filter returns has the kind of the same column
\* of the table given, whichever column is selected as the date column.
C19_AsStated == (Called /\ ~out.raised) => KindsKept(Df, out.df)

\* What holds instead: the kinds are kept by utils.apply_filters, and by
\* the dashboard's apply_filters unless a column that is not Datetime is
\* selected as the date column.
C19_KeptButForDateColumn ==
    (Called /\ ~out.raised)
        => \/ KindsKept(Df, out.df)
           \/ /\ call = "app"
              /\ HasCol(Df, ctl.date_col)
              /\ Kind(Col(Df, ctl.date_col)) # "Datetime"
              /\ Kind(Col(out.df, ctl.date_col)) = "Datetime"

\* The grouping column a ranking was made by.
RankedBy == insights.top.columns[1]

\* C20: the grouping column is the first candidate with a priority token
\* in its lower-cased name, or else the first candidate, where the
\* candidates are the text columns and the numeric columns of fewer than
\* 100 distinct values in the column order of the table.
C20_AsStated ==
    (insights.done /\ ~insights.raised /\ insights.top.some)
        => RankedBy = ChooseGroup(GroupCandidatesInColumnOrder(Df))

\* What holds instead: a text column comes before every numeric
\* candidate, wherever it stands in the table.
C20_TextColumnsFirst ==
    (insights.done /\ ~insights.raised /\ insights.top.some)
        => LET text == Names(ObjectColumns(Df))
               numeric == Names(SelectSeq(NumberColumns(Df), IsLowCardinality))
           IN  RankedBy =
                   IF FirstWithKeyword(text, group_keywords) # NoCol
                   THEN FirstWithKeyword(text, group_keywords)
                   ELSE IF FirstWithKeyword(numeric, group_keywords) # NoCol
                   THEN FirstWithKeyword(numeric, group_keywords)
                   ELSE IF Len(text) > 0 THEN text[1]
                   ELSE numeric[1]

----------------------------------------------------------------------------
(* The categorical summary *)

\* The present cells of a column that no other cell occurs more often than.
TopCells(cells) ==
    {c \in {cells[p] : p \in {q \in 1..Len(cells) : NotNa(cells[q])}} :
        \A q \in 1..Len(cells) :
            NotNa(cells[q]) => Occurrences(cells, c) >= Occurrences(cells, cells[q])}

\* Of the values tied for the highest frequency the one that occurs
\* first in the column; NA (None) where the column has no value.
FirstOfTopCells(cells) ==
    IF TopCells(cells) = {} THEN NA
    ELSE cells[CHOOSE p \in 1..Len(cells) :
                   /\ cells[p] \in TopCells(cells)
                   /\ \A q \in 1..(p - 1) : cells[q] \notin TopCells(cells)]

\* The number of distinct present cells of a column, cell by cell.
DistinctPresent(cells) ==
    Cardinality({cells[p] : p \in {q \in 1..Len(cells) : cells[q].k # "na"}})

\* C21: for each text column categorical_summary reports the number of
\* distinct non-missing values and the most frequent value, of the values
\* tied for the highest frequency the one that occurs first in the
\* column, and None where the column has no value.
C21_AsStated ==
    stats.done =>
        /\ Len(stats.cat) = Len(ObjectColumns(Df))
        /\ \A j \in 1..Len(ObjectColumns(Df)) :
               LET col == ObjectColumns(Df)[j]
               IN  /\ stats.cat[j].col = col.name
                   /\ stats.cat[j].unique = DistinctPresent(col.cells)
                   /\ stats.cat[j].most_frequent = FirstOfTopCells(col.cells)

\* What holds instead: of the values tied for the highest frequency the
\* least in the order of strings is reported.
C21_LeastOfTied ==
    stats.done =>
        /\ Len(stats.cat) = Len(ObjectColumns(Df))
        /\ \A j \in 1..Len(ObjectColumns(Df)) :
               LET col == ObjectColumns(Df)[j]
                   top == TopCells(col.cells)
               IN  /\ stats.cat[j].col = col.name
                   /\ stats.cat[j].unique = DistinctPresent(col.cells)
                   /\ top = {} => stats.cat[j].most_frequent = NA
                   /\ top # {} =>
                          /\ stats.cat[j].most_frequent \in top
                          /\ \A c \in top : ~TextLess(c.s, stats.cat[j].most_frequent.s)

----------------------------------------------------------------------------
(* The sections of the narrative: which are present, and their order *)

\* A part is among the sections of the narrative returned.
HasPart(part) == \E k \in 1..Len(insights.text) : insights.text[k].part = part

Narrated == insights.done /\ ~insights.raised

\* C22: sections are omitted where their precondition fails: of a table
\* without a numeric column the narrative has no anomaly section and no
\* performer callout and the performer tables are absent; of a table
\* without a datetime column it has no temporal section.
C22_AsStated ==
    Narrated =>
        /\ Len(NumberColumns(Df)) = 0 =>
               /\ ~HasPart("anomalies")
               /\ ~HasPart("top") /\ ~HasPart("bottom")
               /\ ~insights.top.some /\ ~insights.bottom.some
        /\ Len(DatetimeColumns(Df)) = 0 => ~HasPart("temporal")

\* What holds instead: without a numeric column there is no callout and
\* no performer table, and the anomaly section is there and says that
\* nothing was found; without a datetime column there is no temporal
\* section.
C22_AnomalySectionStays ==
    Narrated =>
        /\ Len(NumberColumns(Df)) = 0 =>
               /\ LinesOf(insights.text, "anomalies")
                      = <<Line("no_anomalies", <<>>, <<>>, <<>>, 0, 0, 0)>>
               /\ ~HasPart("top") /\ ~HasPart("bottom")
               /\ ~insights.top.some /\ ~insights.bottom.some
        /\ Len(DatetimeColumns(Df)) = 0 => ~HasPart("temporal")

\* The place of a part in the fixed order of the sections.
PartRank(part) ==
    CASE part = "top" -> 1
      [] part = "bottom" -> 2
      [] part = "missing" -> 3
      [] part = "anomalies" -> 4
      [] part = "temporal" -> 5
      [] part = "summary" -> 6

\* C23: in every narrative returned the sections that are present stand
\* in the order performer callouts, missing data, anomalies, temporal
\* trend, dataset summary; the temporal section is present exactly when
\* the table has a datetime column, and the dataset summary is last.
C23_SectionOrder ==
    Narrated =>
        LET parts == Parts(insights.text)
        IN  /\ \A i, j \in 1..Len(parts) : i < j => PartRank(parts[i]) < PartRank(parts[j])
            /\ Len(parts) > 0 /\ parts[Len(parts)] = "summary"
            /\ HasPart("temporal") <=> Len(DatetimeColumns(Df)) > 0

\* A narrative of all the sections was returned.
C23_Witness ==
    /\ Narrated
    /\ Parts(insights.text) = <<"top", "bottom", "missing", "anomalies", "temporal", "summary">>
    /\ Len(DatetimeColumns(Df)) > 0

\* A narrative without performer callouts and without temporal section.
C23_WitnessShort ==
    /\ Narrated
    /\ NRows(Df) > 0
    /\ Parts(insights.text) = <<"missing", "anomalies", "summary">>

----------------------------------------------------------------------------
(* The outlier gate *)

\* The outlier lines of the anomaly section that name a column.
OutlierFlags(text, name) ==
    SelectSeq(LinesOf(text, "anomalies"), LAMBDA l : l.kind = "outlier" /\ l.col = name)

\* The present cells of a column, their sum and the sum of their squares.
Present(col) == {p \in 1..Len(col.cells) : col.cells[p].k # "na"}

Total(col) == SeqSum([p \in 1..Len(col.cells) |->
                         IF p \in Present(col) THEN col.cells[p].n ELSE 0])

TotalOfSquares(col) == SeqSum([p \in 1..Len(col.cells) |->
                                  IF p \in Present(col) THEN col.cells[p].n * col.cells[p].n
                                  ELSE 0])

\* n * (n - 1) times the square of the sample standard deviation.
ScaledVariance(col) ==
    Cardinality(Present(col)) * TotalOfSquares(col) - Total(col) * Total(col)

\* The sample standard deviation exists and is positive.
StdPositive(col) == Cardinality(Present(col)) >= 2 /\ ScaledVariance(col) > 0

\* The number k of values farther than 3 standard deviations from the
\* mean: (x - mean)^2 > 9 * std^2, cleared of its fractions.
FarValues(col) ==
    LET n == Cardinality(Present(col))
    IN  Cardinality({p \in Present(col) :
            (n * col.cells[p].n - Total(col)) * (n * col.cells[p].n - Total(col)) * (n - 1)
                > 9 * n * ScaledVariance(col)})

\* C24: each of the first 5 numeric columns has an outlier line exactly
\* when its sample standard deviation is positive and the number k of its
\* values farther than 3 standard deviations from the mean is above 0
\* and below a tenth of the rows of the table, missing rows included; the
\* line gives k.  No other column has an outlier line.
C24_OutlierGate ==
    Narrated =>
        \A j \in 1..Len(NumberColumns(Df)) :
            LET col == NumberColumns(Df)[j]
                flags == OutlierFlags(insights.text, col.name)
            IN  IF /\ j <= 5
                   /\ StdPositive(col)
                   /\ 0 < FarValues(col)
                   /\ 10 * FarValues(col) < NRows(Df)
                THEN Len(flags) = 1 /\ flags[1].n = FarValues(col)
                ELSE Len(flags) = 0

\* Two far values in twenty-one rows, one of them empty: a tenth of the
\* rows is above 2 only with the empty row counted, and the line is there.
C24_Witness ==
    /\ Narrated
    /\ NRows(Df) = 21
    /\ Len(NumberColumns(Df)) = 1
    /\ Cardinality(Present(NumberColumns(Df)[1])) = 20
    /\ FarValues(NumberColumns(Df)[1]) = 2
    /\ Len(OutlierFlags(insights.text, NumberColumns(Df)[1].name)) = 1

\* Two far values in twenty rows are a tenth of the rows: no line.
C24_WitnessTenth ==
    /\ Narrated
    /\ NRows(Df) = 20
    /\ Len(NumberColumns(Df)) = 1
    /\ StdPositive(NumberColumns(Df)[1])
    /\ FarValues(NumberColumns(Df)[1]) = 2
    /\ Len(OutlierFlags(insights.text, NumberColumns(Df)[1].name)) = 0

----------------------------------------------------------------------------
(* SpecSession: uploads, filters, clearing and export in one session of   *)
(* the dashboard.  df_state and filtered_state are the two gr.State values *)
(* of app.py; call is the handler that ran last.                           *)

\* The rows of the files uploaded in a session: two orders of one country.
SessionRows ==
    << CHOOSE r \in SampleRows : r.sales = Num(12),
       CHOOSE r \in SampleRows : r.sales = Num(5) >>

\* The files: one without rows, one of each order, one of both.
SessionFiles ==
    { LoadedTable(<<>>),
      LoadedTable(<<SessionRows[1]>>),
      LoadedTable(<<SessionRows[2]>>),
      LoadedTable(SessionRows) }

\* file is None: the upload was removed.
NoFile == [some |-> FALSE, df |-> EmptyFrame]

\* The filter values of the apply clicks: a lower bound on the sales, and
\* an end date on the order date.
SessionFilters ==
    { [NoFilters EXCEPT !.num_col = Sales, !.n_min = Bound(12)],
      [NoFilters EXCEPT !.date_col = OrderDate, !.d_end = TxtJan5] }

\* handle_upload(file): None for no file, else load_data(file); its
\* outputs are df_state, the information and the preview, and no handler
\* of file_input.change has filtered_state among its outputs.
handle_upload(file) == IF file.some THEN Some(load_data(file.df)) ELSE None

\* file_input.change
HandleUpload ==
    /\ \E file \in {NoFile} \cup {Some(t) : t \in SessionFiles} :
           df_state' = handle_upload(file)
    /\ call' = "upload"
    /\ UNCHANGED <<ctl, out, filtered_state, exported>>
    /\ UNCHANGED <<inferVars, reportVars, frameVars>>

\* apply_btn.click: filtered_state is the third value apply_filters
\* returns, None for df None; where the function raises no output is set.
SessionApply ==
    /\ \E f \in SessionFilters :
           /\ ctl' = f
           /\ out' = IF df_state.some THEN AppApplyFilters(df_state.df, f)
                      ELSE Returned(EmptyFrame)
           /\ filtered_state' =
                  IF ~df_state.some THEN None
                  ELSE IF AppApplyFilters(df_state.df, f).raised THEN filtered_state
                  ELSE Some(AppApplyFilters(df_state.df, f).df)
    /\ call' = "apply"
    /\ UNCHANGED <<df_state, exported>>
    /\ UNCHANGED <<inferVars, reportVars, frameVars>>

\* clear_btn.click: clear_filters(df) resets the controls and returns df
\* (None for df None) for filtered_state.
SessionClear ==
    /\ ctl' = NoFilters
    /\ filtered_state' = df_state
    /\ call' = "clear"
    /\ UNCHANGED <<df_state, out, exported>>
    /\ UNCHANGED <<inferVars, reportVars, frameVars>>

\* export_csv(filtered_df, full_df): the table written, filtered_df if it
\* is not None, else full_df; nothing is written when both are None.
export_csv(filtered_df, full_df) == IF filtered_df.some THEN filtered_df ELSE full_df

\* export_csv_btn.click
SessionExport ==
    /\ exported' = export_csv(filtered_state, df_state)
    /\ call' = "export"
    /\ UNCHANGED <<df_state, ctl, out, filtered_state>>
    /\ UNCHANGED <<inferVars, reportVars, frameVars>>

\* The session as the dashboard starts: both states None (lines 58-59).
InitSession ==
    /\ df_state = None
    /\ call = "none"
    /\ ctl = NoFilters
    /\ out = Returned(EmptyFrame)
    /\ raw = EmptyFrame
    /\ typed = None
    /\ retyped = None
    /\ stage = "idle"
    /\ ReportIdle
    /\ FrameIdle
    /\ SessionIdle

NextSession == HandleUpload \/ SessionApply \/ SessionClear \/ SessionExport

SpecSession == InitSession /\ [][NextSession]_vars

\* Every row of sub is a row of full: the same columns, and each row of
\* sub has the label and the cells of a row of full.
RowSubset(sub, full) ==
    /\ Len(sub.cols) = Len(full.cols)
    /\ \A j \in 1..Len(sub.cols) : sub.cols[j].name = full.cols[j].name
    /\ \A p \in 1..Len(sub.index) : \E q \in 1..Len(full.index) :
           /\ sub.index[p] = full.index[q]
           /\ \A j \in 1..Len(sub.cols) : sub.cols[j].cells[p] = full.cols[j].cells[q]

\* A table of the session is None or a row-subset of the dataset held.
OfCurrentDataset(t) == t.some => (df_state.some /\ RowSubset(t.df, df_state.df))

\* C25: after any sequence of upload, apply, clear and export,
\* filtered_state is None or a row-subset of the dataset held in
\* df_state, and export_csv writes no row of a dataset uploaded before.
C25_AsStated ==
    /\ OfCurrentDataset(filtered_state)
    /\ call = "export" => OfCurrentDataset(exported)

\* What holds instead: filtered_state is of the dataset held until the
\* next upload, that is as long as apply or clear ran last, or an export
\* behind them.
C25_UntilNextUpload ==
    call \in {"apply", "clear"} => OfCurrentDataset(filtered_state)

----------------------------------------------------------------------------
(* The two filter implementations compared, checked under SpecFilter *)

\* Two outcomes with the same rows: both returned, with the same row labels
\* in the same order.
SameRowsReturned(a, b) == /\ ~a.raised
                          /\ ~b.raised
                          /\ a.df.index = b.df.index

\* C26: for every non-empty typed table and every filter with one
\* categorical allow-set, one numeric range and one date range,
\* utils.apply_filters and the dashboard's apply_filters return the same
\* rows, also for a non-textual column filtered by string values and for a
\* date end bound with rows timestamped later on the end day.
C26_AsStated ==
    (Called /\ NRows(Df) > 0) =>
        SameRowsReturned(AppApplyFilters(Df, ctl), UtilsApply(Df, ctl))

\* The filters on which the two are written alike: the allow-set names no
\* string form of a cell that is not text, the numeric range is on a
\* Numeric column, and the date range is on a Datetime column with no end
\* date that parses.
WrittenAlike(f) ==
    /\ f.cat_col # NoCol
           => /\ HasCol(Df, f.cat_col)
              /\ \A q \in 1..NRows(Df) :
                    \/ Col(Df, f.cat_col).cells[q].k = "str"
                    \/ CellStr(Col(Df, f.cat_col).cells[q], Col(Df, f.cat_col).dtype)
                           \notin f.cat_vals
    /\ NumUsable(f)
    /\ f.date_col # NoCol
           => /\ HasCol(Df, f.date_col)
              /\ Kind(Col(Df, f.date_col)) = "Datetime"
              /\ (f.d_end = <<>> \/ ~BoundParses(f.d_end))

\* What holds instead: the two return the same rows on those filters.
C26_AgreeWhereWrittenAlike ==
    (Called /\ NRows(Df) > 0 /\ WrittenAlike(ctl)) =>
        SameRowsReturned(AppApplyFilters(Df, ctl), UtilsApply(Df, ctl))

\* A filter of all three kinds on which both ran and kept a row.
C26_WitnessAgree ==
    /\ Called
    /\ NRows(Df) > 0
    /\ WrittenAlike(ctl)
    /\ ctl.cat_col # NoCol /\ ctl.cat_vals # {}
    /\ ctl.num_col # NoCol /\ ctl.n_min # NoBound
    /\ ctl.date_col # NoCol /\ ctl.d_start # <<>> /\ BoundParses(ctl.d_start)
    /\ ~out.raised
    /\ 0 < NRows(out.df)
    /\ NRows(out.df) < NRows(Df)

=============================================================================
